---- MODULE Spec2Model ----
(***************************************************************************)
(* Obsidium protocol engine: the per-connection state machine driven by    *)
(* MinecraftServer::handle_connection, the player directory and the server *)
(* tick that refreshes the cached online-player count.                     *)
(***************************************************************************)
EXTENDS Integers, Sequences, FiniteSets, TLC

\* ------------------------------------------------------------------ bounds
MaxSent  == 4      \* frames the server writes on one connection
ConnectionTimeout == 2   \* config.connection_timeout, in units of the model's clock
MaxFrames == 2     \* frames put on the wire of the framing pair

\* ------------------------------------------------------- program constants
McString_MAX_LENGTH   == 32767
HandshakePacket_ID    == 0
StatusRequestPacket_ID == 0
PingRequestPacket_ID  == 1
LoginStartPacket_ID   == 0
LoginAcknowledgedPacket_ID == 3
AcknowledgeFinishConfiguration_ID == 2
StatusResponsePacket_ID == 0
PingResponsePacket_ID == 1
LoginSuccessPacket_ID == 2
SetCompressionPacket_ID == 3
FinishConfigurationPacket_ID == 3
LoginPlayPacket_ID    == 43
PROTOCOL_VERSION      == 770
MAX_PACKET_SIZE       == 2097151
MAX_UNCOMPRESSED_PACKET_SIZE == 8388608

\* ------------------------------------------------------------ input domains
None  == <<>>                        \* Option::None; Some(x) is <<x>>
Some(x) == <<x>>
Conns == {"10.0.0.1:50000", "10.0.0.2:50000"}   \* peer addresses; one Connection each
UUIDs == {1, 2}
Names == {"Alex", "Steve"}
Payloads == {7, 42}
NextStates == {1, 2, 3, 4}
\* ServerConfig: the defaults without compression, and a configuration with
\* a threshold, the largest max-players and other distances
ServerConfigs ==
    {[compression_threshold |-> None, max_players |-> [hi |-> 0, lo |-> 20],
      view_distance |-> 12, simulation_distance |-> 12],
     [compression_threshold |-> Some(64), max_players |-> [hi |-> 65535, lo |-> 65535],
      view_distance |-> 32, simulation_distance |-> 5]}

\* Packet bodies as the field readers see them.  A body of one kind is not
\* decodable as another kind that reads fields (read_exact hits the end).
EmptyBody == [kind |-> "Empty"]
HandshakeBodies ==
    [kind : {"Handshake"}, protocol_version : {PROTOCOL_VERSION}, next_state : NextStates]
LoginStartBodies ==
    {[kind |-> "LoginStart", name |-> "Alex", player_uuid |-> 1],
     [kind |-> "LoginStart", name |-> "Steve", player_uuid |-> 2]}
PingBodies == [kind : {"Ping"}, payload : Payloads]
\* Inbound packets (id, body) as read_packet delivers them: every serverbound
\* packet of the catalog, the same ids with a body their reader cannot decode,
\* and an id no handler knows.
Packets ==
    [id : {0}, body : HandshakeBodies \cup LoginStartBodies \cup {EmptyBody}]
    \cup [id : {1}, body : PingBodies \cup {EmptyBody}]
    \cup [id : {2, 3, 4}, body : {EmptyBody}]

ConnectionState == {"Handshaking", "Status", "Login", "Configuration", "Play"}

VARIABLES
    config,        \* ServerConfig (immutable after start)
    channel,       \* mpsc channel listener -> server loop
    task,          \* per-connection task: unborn, queued, running, or what
                   \* handle_connection returned: Ok, Err(Protocol), Err(Io)
    connection,    \* Connection: protocol_state fields and the compression codec
    sent,          \* frames written on each socket, in program order
    status,        \* the ServerStatus clone handed to each connection task
    players,       \* PlayerManager.players     : uuid -> Player
    connections,   \* PlayerManager.connections : addr -> uuid
    status_online, \* MinecraftServer.status.players.online
    prev_online,   \* history: status_online before the latest tick
    script,        \* history: progress of a client through the login script
    idle,          \* Connection.last_activity.elapsed(), in clock units
    codec,         \* a writer/reader pair of Connections: their Option<Compression>
    wire,          \* bytes written to the pair's stream and not yet read
    wrote,         \* history: what was put on the wire, frame by frame
    got,           \* what read_packet returned, call by call
    dir_pc,        \* PlayerManager callers: position inside add / remove / get
    call,          \* the latest call of a types.rs / packets codec: argument and
                   \* result; in ListenerSpec, the listener
    locks          \* the RwLocks of world, players and connections: holders and
                   \* the queue of waiting tasks

\* the variables of the server proper, of the framing pair and of the directory
\* callers
server_vars == <<config, channel, task, connection, sent, status, players,
                 connections, status_online, prev_online, script, idle>>
wire_vars == <<codec, wire, wrote, got>>
vars == <<config, channel, task, connection, sent, status, players, connections,
          status_online, prev_online, script, idle, codec, wire, wrote, got, dir_pc,
          call, locks>>

\* ---------------------------------------------------------------- helpers
\* (threshold as i32)
as_i32(u) == IF u > 2147483647 THEN u - 2147483647 - 2147483647 - 2 ELSE u

\* VarInt::len
RECURSIVE VarIntLenU(_)
VarIntLenU(u) == IF u < 128 THEN 1 ELSE 1 + VarIntLenU(u \div 128)
VarInt_len(v) == IF v < 0 THEN 5 ELSE VarIntLenU(v)   \* a negative i32 has bit 31 set

StrLen(s) == IF s = "Alex" THEN 4 ELSE IF s = "Steve" THEN 5 ELSE 19

\* ProtocolState::new / Connection::new
NewConnection ==
    [state |-> "Handshaking", compression_enabled |-> FALSE,
     compression_threshold |-> None, protocol_version |-> None,
     compression |-> None]

\* allows_compression with Status let through
allows_compression_status(s) == s \in {"Status", "Login", "Play"}

\* ConnectionState::allows_compression
allows_compression(s) == s \in {"Login", "Play"}

\* Connection::set_state -> ProtocolState::transition_to
set_state(conn, new_state) == [conn EXCEPT !.state = new_state]

\* Connection::set_protocol_version
set_protocol_version(conn, v) == [conn EXCEPT !.protocol_version = Some(v)]

\* Connection::enable_compression -> ProtocolState::enable_compression
enable_compression(conn, threshold) ==
    LET ps == IF allows_compression(conn.state)
              THEN [conn EXCEPT !.compression_enabled = TRUE,
                                !.compression_threshold = Some(threshold)]
              ELSE conn
    IN  [ps EXCEPT !.compression = Some(threshold)]

\* disable_compression clearing the threshold only
disable_compression_keep_flag(conn) == [conn EXCEPT !.compression_threshold = None]

\* ProtocolState::disable_compression
disable_compression(conn) ==
    [conn EXCEPT !.compression_enabled = FALSE, !.compression_threshold = None]

\* ------------------------------------------------------------------ framing
\* A frame is described by the sequence of wire fields that make it up.
UncompressedFrame == <<"packet_length", "packet_id", "body">>

\* Compression::compress_packet: the bytes it returns
compress_packet(threshold, uncompressed_length) ==
    IF uncompressed_length < threshold
    THEN <<"data_length_0", "packet_id", "body">>
    ELSE <<"data_length", "deflate">>

\* Connection::write_packet: final_data
write_frame(conn, id, body_len) ==
    IF conn.compression # None
    THEN compress_packet(conn.compression[1], VarInt_len(id) + body_len)
    ELSE UncompressedFrame

\* Connection::read_packet: the layout the reader parses
read_frame(conn) ==
    IF conn.compression # None
    THEN <<"packet_length", "data_length", "payload">>
    ELSE UncompressedFrame

Frame(conn, name, id, body, body_len) ==
    [name |-> name, id |-> id, frame |-> write_frame(conn, id, body_len), body |-> body]


\* --------------------------------------------------------- player directory
Player(uuid, username) == [uuid |-> uuid, username |-> username]

\* PlayerManager::add_player
add_player(dir, player, addr) ==
    [players     |-> [dir.players EXCEPT ![player.uuid] = Some(player)],
     connections |-> [dir.connections EXCEPT ![addr] = Some(player.uuid)]]

\* PlayerManager::remove_player
remove_player(dir, addr) ==
    LET uuid == dir.connections[addr]
    IN  [players     |-> IF uuid # None THEN [dir.players EXCEPT ![uuid[1]] = None]
                         ELSE dir.players,
         connections |-> [dir.connections EXCEPT ![addr] = None]]

\* PlayerManager::player_count
player_count(pl) == Cardinality({u \in UUIDs : pl[u] # None})

\* PlayerManager::get_player_by_addr
get_player_by_addr(dir, addr) ==
    IF dir.connections[addr] # None THEN dir.players[dir.connections[addr][1]] ELSE None

\* ----------------------------------------------------------- state handlers
\* What a handler leaves behind: the connection, the frames it wrote, how it
\* returned (ok = Ok(false) / Ok(()), break = Ok(true), Protocol / Io = Err)
\* and the player it added to the directory.
Result(conn, out, res, add) == [conn |-> conn, out |-> out, res |-> res, add |-> add]

\* handle_handshaking_packet with the transfer intent (3) left to the
\* catch-all arm
handle_handshaking_packet_no_transfer(conn, pkt) ==
    IF pkt.id = HandshakePacket_ID
    THEN IF pkt.body.kind # "Handshake"
         THEN Result(conn, <<>>, "Io", None)
         ELSE LET c1 == set_protocol_version(conn, pkt.body.protocol_version)
                  ns == pkt.body.next_state
              IN  CASE ns = 1 -> Result(set_state(c1, "Status"), <<>>, "ok", None)
                    [] ns = 2 -> Result(set_state(c1, "Login"), <<>>, "ok", None)
                    [] OTHER  -> Result(c1, <<>>, "Protocol", None)
    ELSE Result(conn, <<>>, "ok", None)

\* MinecraftServer::handle_handshaking_packet
handle_handshaking_packet(conn, pkt) ==
    IF pkt.id = HandshakePacket_ID
    THEN IF pkt.body.kind # "Handshake"
         THEN Result(conn, <<>>, "Io", None)
         ELSE LET c1 == set_protocol_version(conn, pkt.body.protocol_version)
                  ns == pkt.body.next_state
              IN  CASE ns = 1 -> Result(set_state(c1, "Status"), <<>>, "ok", None)
                    [] ns = 2 -> Result(set_state(c1, "Login"), <<>>, "ok", None)
                    [] ns = 3 -> Result(set_state(c1, "Login"), <<>>, "ok", None)
                    [] OTHER  -> Result(c1, <<>>, "Protocol", None)
    ELSE Result(conn, <<>>, "ok", None)

\* handle_status_packet returning Ok(false) after the ping reply
handle_status_packet_no_close(conn, pkt, st, ok_writes) ==
    IF pkt.id = StatusRequestPacket_ID
    THEN IF ok_writes >= 1
         THEN Result(conn,
                     <<Frame(conn, "StatusResponse", StatusResponsePacket_ID,
                             [online |-> st.online, protocol |-> st.protocol], 150)>>,
                     "ok", None)
         ELSE Result(conn, <<>>, "Io", None)
    ELSE IF pkt.id = PingRequestPacket_ID
    THEN IF pkt.body.kind # "Ping"
         THEN Result(conn, <<>>, "Io", None)
         ELSE IF ok_writes >= 1
         THEN Result(conn,
                     <<Frame(conn, "PingResponse", PingResponsePacket_ID,
                             [payload |-> pkt.body.payload], 8)>>,
                     "ok", None)
         ELSE Result(conn, <<>>, "Io", None)
    ELSE Result(conn, <<>>, "ok", None)

\* MinecraftServer::handle_status_packet; ok_writes = writes that succeed
\* before the socket breaks
handle_status_packet(conn, pkt, st, ok_writes) ==
    IF pkt.id = StatusRequestPacket_ID
    THEN IF ok_writes >= 1
         THEN Result(conn,
                     <<Frame(conn, "StatusResponse", StatusResponsePacket_ID,
                             [online |-> st.online, protocol |-> st.protocol], 150)>>,
                     "ok", None)
         ELSE Result(conn, <<>>, "Io", None)
    ELSE IF pkt.id = PingRequestPacket_ID
    THEN IF pkt.body.kind # "Ping"
         THEN Result(conn, <<>>, "Io", None)
         ELSE IF ok_writes >= 1
         THEN Result(conn,
                     <<Frame(conn, "PingResponse", PingResponsePacket_ID,
                             [payload |-> pkt.body.payload], 8)>>,
                     "break", None)
         ELSE Result(conn, <<>>, "Io", None)
    ELSE Result(conn, <<>>, "ok", None)

\* handle_login_packet going straight to Play
handle_login_packet_to_play(conn, pkt, cfg, ok_writes) ==
    IF pkt.id = LoginStartPacket_ID
    THEN IF pkt.body.kind # "LoginStart"
         THEN Result(conn, <<>>, "Io", None)
         ELSE LET has == cfg.compression_threshold # None
                  t   == cfg.compression_threshold[1]
                  sc  == Frame(conn, "SetCompression", SetCompressionPacket_ID,
                               [threshold |-> as_i32(t)], VarInt_len(as_i32(t)))
                  c1  == IF has THEN enable_compression(conn, t) ELSE conn
                  pre == IF has THEN <<sc>> ELSE <<>>
                  ls  == Frame(c1, "LoginSuccess", LoginSuccessPacket_ID,
                               [uuid |-> pkt.body.player_uuid,
                                username |-> pkt.body.name,
                                properties |-> <<>>],
                               16 + 1 + StrLen(pkt.body.name) + 1)
              IN  IF has /\ ok_writes < 1
                  THEN Result(conn, <<>>, "Io", None)
                  ELSE IF ok_writes < Len(pre) + 1
                  THEN Result(c1, pre, "Io", None)
                  ELSE Result(set_state(c1, "Play"), pre \o <<ls>>, "ok",
                              Some(Player(pkt.body.player_uuid, pkt.body.name)))
    ELSE Result(conn, <<>>, "ok", None)

\* handle_login_packet registering the player before LoginSuccess is written
handle_login_packet_add_first(conn, pkt, cfg, ok_writes) ==
    IF pkt.id = LoginStartPacket_ID
    THEN IF pkt.body.kind # "LoginStart"
         THEN Result(conn, <<>>, "Io", None)
         ELSE LET has == cfg.compression_threshold # None
                  t   == cfg.compression_threshold[1]
                  sc  == Frame(conn, "SetCompression", SetCompressionPacket_ID,
                               [threshold |-> as_i32(t)], VarInt_len(as_i32(t)))
                  c1  == IF has THEN enable_compression(conn, t) ELSE conn
                  pre == IF has THEN <<sc>> ELSE <<>>
                  ls  == Frame(c1, "LoginSuccess", LoginSuccessPacket_ID,
                               [uuid |-> pkt.body.player_uuid,
                                username |-> pkt.body.name,
                                properties |-> <<>>],
                               16 + 1 + StrLen(pkt.body.name) + 1)
                  pl  == Some(Player(pkt.body.player_uuid, pkt.body.name))
              IN  IF has /\ ok_writes < 1
                  THEN Result(conn, <<>>, "Io", None)
                  ELSE IF ok_writes < Len(pre) + 1
                  THEN Result(c1, pre, "Io", pl)
                  ELSE Result(set_state(c1, "Configuration"), pre \o <<ls>>, "ok", pl)
    ELSE Result(conn, <<>>, "ok", None)

\* MinecraftServer::handle_login_packet
handle_login_packet(conn, pkt, cfg, ok_writes) ==
    IF pkt.id = LoginStartPacket_ID
    THEN IF pkt.body.kind # "LoginStart"
         THEN Result(conn, <<>>, "Io", None)
         ELSE LET has == cfg.compression_threshold # None
                  t   == cfg.compression_threshold[1]
                  sc  == Frame(conn, "SetCompression", SetCompressionPacket_ID,
                               [threshold |-> as_i32(t)], VarInt_len(as_i32(t)))
                  c1  == IF has THEN enable_compression(conn, t) ELSE conn
                  pre == IF has THEN <<sc>> ELSE <<>>
                  ls  == Frame(c1, "LoginSuccess", LoginSuccessPacket_ID,
                               [uuid |-> pkt.body.player_uuid,
                                username |-> pkt.body.name,
                                properties |-> <<>>],
                               16 + 1 + StrLen(pkt.body.name) + 1)
              IN  IF has /\ ok_writes < 1
                  THEN Result(conn, <<>>, "Io", None)
                  ELSE IF ok_writes < Len(pre) + 1
                  THEN Result(c1, pre, "Io", None)
                  ELSE Result(set_state(c1, "Configuration"), pre \o <<ls>>, "ok",
                              Some(Player(pkt.body.player_uuid, pkt.body.name)))
    ELSE Result(conn, <<>>, "ok", None)

\* (config.max_players as i32).  max_players is a u32 and any u32 can be
\* configured, so it is kept as its two 16-bit halves; bit 31 becomes the sign.
u32_as_i32(u) ==
    IF u.hi >= 32768 THEN (u.hi - 65536) * 65536 + u.lo ELSE u.hi * 65536 + u.lo

\* LoginPlayPacket::from_server_config
from_server_config(cfg, entity_id) ==
    [entity_id |-> entity_id,
     dimension_names |-> <<"minecraft:overworld">>,
     max_players |-> u32_as_i32(cfg.max_players),
     view_distance |-> cfg.view_distance,
     simulation_distance |-> cfg.simulation_distance,
     game_mode |-> 0,
     previous_game_mode |-> -1]

\* LoginPlayPacket::write: number of bytes
LoginPlay_len(p) ==
    4 + 1 + 1 + (1 + 19) + VarInt_len(p.max_players) + VarInt_len(p.view_distance)
      + VarInt_len(p.simulation_distance) + 3 + 1 + (1 + 19) + 8 + 1 + 1 + 3 + 1 + 1 + 1

\* handle_configuration_packet writing LoginPlay before set_state(Play)
handle_configuration_packet_write_first(conn, pkt, cfg, ok_writes) ==
    IF pkt.id = LoginAcknowledgedPacket_ID
    THEN IF ok_writes >= 1
         THEN Result(conn,
                     <<Frame(conn, "FinishConfiguration", FinishConfigurationPacket_ID,
                             EmptyBody, 0)>>,
                     "ok", None)
         ELSE Result(conn, <<>>, "Io", None)
    ELSE IF pkt.id = AcknowledgeFinishConfiguration_ID
    THEN LET lp == from_server_config(cfg, 1)
         IN  IF ok_writes >= 1
             THEN Result(set_state(conn, "Play"),
                         <<Frame(conn, "LoginPlay", LoginPlayPacket_ID, lp,
                                 LoginPlay_len(lp))>>, "ok", None)
             ELSE Result(conn, <<>>, "Io", None)
    ELSE Result(conn, <<>>, "ok", None)

\* MinecraftServer::handle_configuration_packet
handle_configuration_packet(conn, pkt, cfg, ok_writes) ==
    IF pkt.id = LoginAcknowledgedPacket_ID
    THEN IF ok_writes >= 1
         THEN Result(conn,
                     <<Frame(conn, "FinishConfiguration", FinishConfigurationPacket_ID,
                             EmptyBody, 0)>>,
                     "ok", None)
         ELSE Result(conn, <<>>, "Io", None)
    ELSE IF pkt.id = AcknowledgeFinishConfiguration_ID
    THEN LET c1 == set_state(conn, "Play")
             lp == from_server_config(cfg, 1)
         IN  IF ok_writes >= 1
             THEN Result(c1, <<Frame(c1, "LoginPlay", LoginPlayPacket_ID, lp,
                                     LoginPlay_len(lp))>>, "ok", None)
             ELSE Result(c1, <<>>, "Io", None)
    ELSE Result(conn, <<>>, "ok", None)

\* MinecraftServer::handle_play_packet
handle_play_packet(conn, pkt) == Result(conn, <<>>, "ok", None)

\* MinecraftServer::handle_connection: how the task leaves one loop iteration.
\* An Err from a handler is propagated by `?` and returns at once; Ok(true)
\* breaks the loop, which falls through to remove_player.
task_after(res) ==
    CASE res = "ok"       -> "running"
      [] res = "break"    -> "Ok"
      [] res = "Protocol" -> "Err(Protocol)"
      [] OTHER            -> "Err(Io)"

\* MinecraftServer::handle_connection: the directory after one loop iteration
directory_after(dir, addr, r) ==
    LET d1 == IF r.add # None THEN add_player(dir, r.add[1], addr) ELSE dir
    IN  IF r.res = "break" THEN remove_player(d1, addr) ELSE d1

\* history: position of the client in the script Handshake{next=2},
\* LoginStart, LoginAcknowledged, AcknowledgeFinishConfiguration
ScriptOff == [step |-> -1, ls |-> None]
script_after(s, pkt, res) ==
    IF res # "ok" THEN ScriptOff
    ELSE CASE s.step = 0 /\ pkt.id = HandshakePacket_ID /\ pkt.body.kind = "Handshake"
                /\ pkt.body.next_state = 2
                -> [step |-> 1, ls |-> None]
           [] s.step = 1 /\ pkt.id = LoginStartPacket_ID /\ pkt.body.kind = "LoginStart"
                -> [step |-> 2, ls |-> Some(pkt.body)]
           [] s.step = 2 /\ pkt.id = LoginAcknowledgedPacket_ID /\ pkt.body = EmptyBody
                -> [step |-> 3, ls |-> s.ls]
           [] s.step = 3 /\ pkt.id = AcknowledgeFinishConfiguration_ID /\ pkt.body = EmptyBody
                -> [step |-> 4, ls |-> s.ls]
           [] OTHER -> ScriptOff

Dir == [players |-> players, connections |-> connections]

\* ------------------------------------------------------------------ actions
\* no framing pair in use, no directory call in progress
WireIdle == codec = None /\ wire = <<>> /\ wrote = <<>> /\ got = <<>>
DirIdle == [op |-> "idle", uuid |-> None, found |-> None]
CallIdle == [op |-> "none", arg |-> None, out |-> None]
\* RwLock::new: nobody holds the lock, nobody waits for it
LocksIdle ==
    [l \in {"world", "players", "connections"} |-> [held |-> {}, queue |-> <<>>]]

Init ==
    /\ config \in ServerConfigs
    /\ channel = <<>>
    /\ task = [c \in Conns |-> "unborn"]
    /\ connection = [c \in Conns |-> NewConnection]
    /\ sent = [c \in Conns |-> <<>>]
    /\ status = [c \in Conns |-> [online |-> 0, protocol |-> PROTOCOL_VERSION]]
    /\ players = [u \in UUIDs |-> None]
    /\ connections = [c \in Conns |-> None]
    /\ status_online = 0
    /\ prev_online = 0
    /\ script = [c \in Conns |-> [step |-> 0, ls |-> None]]
    /\ idle = [c \in Conns |-> 0]
    /\ WireIdle
    /\ dir_pc = [c \in Conns |-> DirIdle]
    /\ call = CallIdle
    /\ locks = LocksIdle

\* ServerListener::listen: accept a socket and hand the Connection over
Accept(c) ==
    /\ task[c] = "unborn"
    /\ task' = [task EXCEPT ![c] = "queued"]
    /\ channel' = Append(channel, c)
    /\ idle' = [idle EXCEPT ![c] = 0]
    /\ UNCHANGED <<locks, config, connection, sent, status, players, connections,
                   status_online, prev_online, script, wire_vars, call, dir_pc>>

\* MinecraftServer::run, recv branch: clone the status and spawn the task
Spawn ==
    /\ channel # <<>>
    /\ LET c == Head(channel)
       IN  /\ task' = [task EXCEPT ![c] = "running"]
           /\ status' = [status EXCEPT ![c] = [online |-> status_online,
                                               protocol |-> PROTOCOL_VERSION]]
    /\ channel' = Tail(channel)
    /\ UNCHANGED <<locks, config, connection, sent, players, connections,
                   status_online, prev_online, script, idle, wire_vars, call, dir_pc>>

\* MinecraftServer::run, timer branch
Tick ==
    /\ status_online' = player_count(players)
    /\ prev_online' = status_online
    /\ UNCHANGED <<locks, config, channel, task, connection, sent, status, players,
                   connections, script, idle, wire_vars, call, dir_pc>>

\* MinecraftServer::handle_connection: one loop iteration whose read succeeded
\* and whose handler left r behind
Iterate(c, pkt, r) ==
    /\ connection' = [connection EXCEPT ![c] = r.conn]
    /\ sent' = [sent EXCEPT ![c] = @ \o r.out]
    /\ Len(sent'[c]) <= MaxSent
    /\ LET d == directory_after(Dir, c, r)
       IN  /\ players' = d.players
           /\ connections' = d.connections
    /\ task' = [task EXCEPT ![c] = task_after(r.res)]
    /\ script' = [script EXCEPT ![c] = script_after(@, pkt, r.res)]
    /\ idle' = [idle EXCEPT ![c] = 0]
    /\ UNCHANGED <<locks, config, channel, status, status_online, prev_online,
                   wire_vars, call, dir_pc>>

Running(c, s) == task[c] = "running" /\ connection[c].state = s

HandleHandshaking(c, pkt) ==
    /\ Running(c, "Handshaking")
    /\ LET r == handle_handshaking_packet(connection[c], pkt)
       IN  Iterate(c, pkt, r)

HandleStatus(c, pkt, ok_writes) ==
    /\ Running(c, "Status")
    /\ LET r == handle_status_packet(connection[c], pkt, status[c], ok_writes)
       IN  Iterate(c, pkt, r)

HandleLogin(c, pkt, ok_writes) ==
    /\ Running(c, "Login")
    /\ LET r == handle_login_packet(connection[c], pkt, config, ok_writes)
       IN  Iterate(c, pkt, r)

HandleConfiguration(c, pkt, ok_writes) ==
    /\ Running(c, "Configuration")
    /\ LET r == handle_configuration_packet(connection[c], pkt, config, ok_writes)
       IN  Iterate(c, pkt, r)

HandlePlay(c, pkt) ==
    /\ Running(c, "Play")
    /\ LET r == handle_play_packet(connection[c], pkt)
       IN  Iterate(c, pkt, r)

\* MinecraftServer::handle_connection: read_packet fails (EOF, framing error):
\* break, remove_player, Ok(())
ReadError(c) ==
    /\ task[c] = "running"
    /\ task' = [task EXCEPT ![c] = "Ok"]
    /\ LET d == remove_player(Dir, c)
       IN  /\ players' = d.players
           /\ connections' = d.connections
    /\ idle' = [idle EXCEPT ![c] = 0]
    /\ UNCHANGED <<locks, config, channel, connection, sent, status, status_online,
                   prev_online, script, wire_vars, call, dir_pc>>

Next ==
    \/ \E c \in Conns : Accept(c)
    \/ Spawn
    \/ Tick
    \/ \E c \in Conns, pkt \in Packets : HandleHandshaking(c, pkt)
    \/ \E c \in Conns, pkt \in Packets, w \in 0..1 : HandleStatus(c, pkt, w)
    \/ \E c \in Conns, pkt \in Packets, w \in 0..2 : HandleLogin(c, pkt, w)
    \/ \E c \in Conns, pkt \in Packets, w \in 0..1 : HandleConfiguration(c, pkt, w)
    \/ \E c \in Conns, pkt \in Packets : HandlePlay(c, pkt)
    \/ \E c \in Conns : ReadError(c)

Spec == Init /\ [][Next]_vars

Terminated == {"Ok", "Err(Protocol)", "Err(Io)"}

TypeOK ==
    /\ \A c \in Conns : connection[c].state \in ConnectionState
    /\ \A c \in Conns : task[c] \in {"unborn", "queued", "running"} \cup Terminated
    /\ \A c \in Conns : Len(sent[c]) <= MaxSent
    /\ status_online \in 0..Cardinality(UUIDs)

Names_of(frames) == [i \in 1..Len(frames) |-> frames[i].name]
Index_of(frames, name) ==
    IF \E i \in 1..Len(frames) : frames[i].name = name
    THEN CHOOSE i \in 1..Len(frames) :
             frames[i].name = name /\ \A j \in 1..(i - 1) : frames[j].name # name
    ELSE 0

\* ---------------------------------------------------------------- C1
\* C1: in Handshaking a decodable Handshake packet (id 0x00) moves the
\* connection to Status when next_state = 1 and to Login when next_state is 2
\* or 3; for any other next_state the task ends with a Protocol error and the
\* state is still Handshaking.
C1_HandshakeNextState ==
    [][\A c \in Conns, pkt \in Packets :
          (pkt.id = HandshakePacket_ID /\ pkt.body.kind = "Handshake"
                                       /\ HandleHandshaking(c, pkt))
          => LET ns == pkt.body.next_state
             IN  /\ ns = 1 => connection'[c].state = "Status" /\ task'[c] = "running"
                 /\ ns \in {2, 3} => connection'[c].state = "Login" /\ task'[c] = "running"
                 /\ ns \notin {1, 2, 3} => /\ task'[c] = "Err(Protocol)"
                                           /\ connection'[c].state = "Handshaking"]_vars

\* one connection was refused for its next_state, the other went on to Login
C1_Witness ==
    \E c, d \in Conns :
        /\ task[c] = "Err(Protocol)"
        /\ connection[c].state = "Handshaking"
        /\ connection[c].protocol_version = Some(PROTOCOL_VERSION)
        /\ task[d] = "running"
        /\ connection[d].state = "Login"
        /\ connection[d].protocol_version = Some(PROTOCOL_VERSION)

\* ---------------------------------------------------------------- C2
\* C2: in Handshaking a packet with any id other than 0x00 is a protocol
\* fault: the connection task terminates with a Protocol error.
C2_OtherIdIsFault ==
    [][\A c \in Conns, pkt \in Packets :
          (pkt.id # HandshakePacket_ID /\ HandleHandshaking(c, pkt))
          => task'[c] = "Err(Protocol)"]_vars

\* ---------------------------------------------------------------- C3
\* C3: a connection starts in Handshaking and its state changes only along
\* Handshaking -> Status or Handshaking -> Login -> Configuration -> Play.
Path ==
    {<<"Handshaking", "Status">>, <<"Handshaking", "Login">>,
     <<"Login", "Configuration">>, <<"Configuration", "Play">>}

C3_MonotonePath ==
    /\ [](\A c \in Conns :
            task[c] \in {"unborn", "queued"} => connection[c].state = "Handshaking")
    /\ [][\A c \in Conns :
            connection'[c].state # connection[c].state
            => <<connection[c].state, connection'[c].state>> \in Path]_vars

C3_Witness ==
    \E c, d \in Conns :
        /\ connection[c].state = "Play"
        /\ connection[d].state = "Status"

\* ---------------------------------------------------------------- C4
\* C4: once a connection task has terminated, by a read error or by an error
\* inside a state handler, the directory holds no entry for its peer address.
C4_NoEntryAfterExit ==
    \A c \in Conns : task[c] \in Terminated => connections[c] = None


\* ---------------------------------------------------------------- C5
\* The two framings of the wire protocol: packet_length, packet_id, body and,
\* after SetCompression, packet_length, data_length, payload.
UsesCompressedFraming(f) ==
    /\ Len(f) >= 3
    /\ f[1] = "packet_length"
    /\ f[2] \in {"data_length_0", "data_length"}

\* C5: on LoginStart, SetCompression is sent iff a threshold is configured;
\* it carries the threshold, is written with uncompressed framing and precedes
\* LoginSuccess; every packet written or read after it uses the compressed
\* framing; with no threshold no frame ever uses the compressed framing.
C5_SetCompression ==
    \A c \in Conns :
        LET fr == sent[c]
            i  == Index_of(fr, "SetCompression")
            j  == Index_of(fr, "LoginSuccess")
            t  == config.compression_threshold
        IN  /\ j > 0 => (i > 0 <=> t # None)
            /\ i > 0 => /\ t # None
                        /\ fr[i].body.threshold = t[1]
                        /\ fr[i].frame = UncompressedFrame
                        /\ j > 0 => i < j
                        /\ \A k \in (i + 1)..Len(fr) : UsesCompressedFraming(fr[k].frame)
                        /\ UsesCompressedFraming(read_frame(connection[c]))
            /\ t = None => /\ i = 0
                           /\ \A k \in 1..Len(fr) : fr[k].frame = UncompressedFrame
                           /\ read_frame(connection[c]) = UncompressedFrame

\* ---------------------------------------------------------------- C6
\* C6: in Configuration, LoginAcknowledged (0x03) makes the server write
\* FinishConfiguration and stay in Configuration; AcknowledgeFinishConfiguration
\* (0x02) sets the state to Play and the next frame written is LoginPlay (0x2B),
\* written after the state change.
C6_ConfigurationHandoff ==
    [][\A c \in Conns, pkt \in Packets, w \in 0..1 :
          (pkt.id \in {LoginAcknowledgedPacket_ID, AcknowledgeFinishConfiguration_ID}
             /\ HandleConfiguration(c, pkt, w))
          => /\ pkt.id = LoginAcknowledgedPacket_ID
                => /\ connection'[c].state = "Configuration"
                   /\ w = 1 => /\ Len(sent'[c]) = Len(sent[c]) + 1
                               /\ SubSeq(sent'[c], 1, Len(sent[c])) = sent[c]
                               /\ sent'[c][Len(sent'[c])].name = "FinishConfiguration"
                               /\ sent'[c][Len(sent'[c])].id = FinishConfigurationPacket_ID
                               /\ task'[c] = "running"
             /\ pkt.id = AcknowledgeFinishConfiguration_ID
                => /\ connection'[c].state = "Play"
                   /\ w = 1 => /\ Len(sent'[c]) = Len(sent[c]) + 1
                               /\ SubSeq(sent'[c], 1, Len(sent[c])) = sent[c]
                               /\ sent'[c][Len(sent'[c])].name = "LoginPlay"
                               /\ sent'[c][Len(sent'[c])].id = LoginPlayPacket_ID
                               /\ task'[c] = "running"
                   /\ w = 0 => sent'[c] = sent[c] /\ task'[c] = "Err(Io)"]_vars

C6_Witness ==
    \E c \in Conns :
        /\ connection[c].state = "Play"
        /\ task[c] = "running"
        /\ Len(sent[c]) >= 2
        /\ sent[c][Len(sent[c])].id = LoginPlayPacket_ID
        /\ sent[c][Len(sent[c]) - 1].name = "FinishConfiguration"

\* ---------------------------------------------------------------- C7
\* C7: in Configuration only LoginAcknowledged (0x03) and
\* AcknowledgeFinishConfiguration (0x02) advance the handshake; a packet with
\* any other id is rejected.
C7_OtherIdRejected ==
    [][\A c \in Conns, pkt \in Packets, w \in 0..1 :
          (pkt.id \notin {LoginAcknowledgedPacket_ID, AcknowledgeFinishConfiguration_ID}
             /\ HandleConfiguration(c, pkt, w))
          => /\ connection'[c].state = "Configuration"
             /\ sent'[c] = sent[c]
             /\ task'[c] \in {"Err(Protocol)", "Err(Io)"}]_vars

\* ---------------------------------------------------------------- C8
\* C8: a client that sent Handshake{next=2}, LoginStart, LoginAcknowledged and
\* AcknowledgeFinishConfiguration, with no I/O error, is in Play, its player is
\* in the directory, and the frames written to it are [SetCompression,]
\* LoginSuccess (same uuid and username, no properties), FinishConfiguration,
\* LoginPlay and nothing else.
C8_LoginScript ==
    \A c \in Conns :
        (script[c].step = 4 /\ task[c] = "running")
        => LET ls == script[c].ls[1]
               pre == IF config.compression_threshold # None
                      THEN <<"SetCompression">> ELSE <<>>
               j  == Index_of(sent[c], "LoginSuccess")
           IN  /\ connection[c].state = "Play"
               /\ get_player_by_addr(Dir, c) = Some(Player(ls.player_uuid, ls.name))
               /\ Names_of(sent[c])
                    = pre \o <<"LoginSuccess", "FinishConfiguration", "LoginPlay">>
               /\ sent[c][j].body = [uuid |-> ls.player_uuid, username |-> ls.name,
                                     properties |-> <<>>]

\* ---------------------------------------------------------------- C9
\* C9: in Status every StatusRequest is answered with exactly one
\* StatusResponse and the connection stays open in Status; every PingRequest is
\* answered with a PingResponse carrying the same payload, after which the task
\* ends and nothing more happens on the connection; the state never changes
\* from Status.
C9_StatusFlow ==
    [][/\ \A c \in Conns, pkt \in Packets :
             (pkt.id \in {StatusRequestPacket_ID, PingRequestPacket_ID}
                /\ HandleStatus(c, pkt, 1))
             => /\ pkt.id = StatusRequestPacket_ID
                   => /\ Len(sent'[c]) = Len(sent[c]) + 1
                      /\ SubSeq(sent'[c], 1, Len(sent[c])) = sent[c]
                      /\ sent'[c][Len(sent'[c])].name = "StatusResponse"
                      /\ task'[c] = "running"
                /\ (pkt.id = PingRequestPacket_ID /\ pkt.body.kind = "Ping")
                   => /\ Len(sent'[c]) = Len(sent[c]) + 1
                      /\ SubSeq(sent'[c], 1, Len(sent[c])) = sent[c]
                      /\ sent'[c][Len(sent'[c])].name = "PingResponse"
                      /\ sent'[c][Len(sent'[c])].body.payload = pkt.body.payload
                      /\ task'[c] = "Ok"
       /\ \A c \in Conns :
             /\ connection[c].state = "Status" => connection'[c].state = "Status"
             /\ task[c] \in Terminated
                => /\ task'[c] = task[c]
                   /\ sent'[c] = sent[c]
                   /\ connection'[c] = connection[c]]_vars

C9_Witness ==
    \E c \in Conns :
        /\ task[c] = "Ok"
        /\ connection[c].state = "Status"
        /\ Names_of(sent[c]) = <<"StatusResponse", "StatusResponse", "PingResponse">>
        /\ sent[c][3].body.payload = 42

\* ---------------------------------------------------------------- C10
\* C10: the players.online a StatusResponse reports is the directory count as
\* of the server tick preceding the request, within one tick: the count the
\* latest tick stored, the one before it, or the count the next tick will store.
C10_FreshSnapshot ==
    [][\A c \in Conns, pkt \in Packets :
          (pkt.id = StatusRequestPacket_ID /\ HandleStatus(c, pkt, 1))
          => sent'[c][Len(sent'[c])].body.online
                \in {status_online, prev_online, player_count(players)}]_vars

\* ================================================================ idle clock
\* The server under a clock.  Connection.last_activity is set by Connection::new,
\* read_packet and write_packet; idle[c] is last_activity.elapsed(), counted up
\* to one unit past config.connection_timeout.  The clients follow the login
\* script; a client may also go silent or close its socket at any point.
ScriptPackets ==
    {[id |-> HandshakePacket_ID,
      body |-> [kind |-> "Handshake", protocol_version |-> PROTOCOL_VERSION,
                next_state |-> 2]],
     [id |-> LoginStartPacket_ID,
      body |-> [kind |-> "LoginStart", name |-> "Alex", player_uuid |-> 1]],
     [id |-> LoginAcknowledgedPacket_ID, body |-> EmptyBody],
     [id |-> AcknowledgeFinishConfiguration_ID, body |-> EmptyBody]}

\* Connection::is_timed_out
is_timed_out(c, timeout) == idle[c] > timeout

\* time passes on a live connection with no read or write
Elapse(c) ==
    /\ task[c] \in {"queued", "running"}
    /\ idle[c] <= ConnectionTimeout
    /\ idle' = [idle EXCEPT ![c] = @ + 1]
    /\ UNCHANGED <<locks, config, channel, task, connection, sent, status, players,
                   connections, status_online, prev_online, script, wire_vars, call, dir_pc>>

IdleNext ==
    \/ \E c \in Conns : Accept(c)
    \/ Spawn
    \/ Tick
    \/ \E c \in Conns, pkt \in ScriptPackets : HandleHandshaking(c, pkt)
    \/ \E c \in Conns, pkt \in ScriptPackets : HandleLogin(c, pkt, 2)
    \/ \E c \in Conns, pkt \in ScriptPackets : HandleConfiguration(c, pkt, 1)
    \/ \E c \in Conns, pkt \in ScriptPackets : HandlePlay(c, pkt)
    \/ \E c \in Conns : ReadError(c)
    \/ \E c \in Conns : Elapse(c)

\* The run loop polls its channel and its timer for ever and the clock does not
\* stop: those steps are fair.  What a client sends, and whether it closes its
\* socket, is up to the client.
IdleSpec ==
    /\ Init
    /\ [][IdleNext]_vars
    /\ WF_vars(Spawn)
    /\ WF_vars(Tick)
    /\ \A c \in Conns : WF_vars(Elapse(c))

\* ---------------------------------------------------------------- C11
\* C11: a connection in Play from which nothing has arrived for longer than
\* config.connection_timeout is eventually closed by the server, and the
\* directory entry of its peer address is removed.
C11_IdleDisconnect ==
    \A c \in Conns :
        (connection[c].state = "Play" /\ task[c] = "running"
            /\ is_timed_out(c, ConnectionTimeout))
        ~> (task[c] \in Terminated /\ connections[c] = None)

\* =================================================================== framing
\* Connection::write_packet and Connection::read_packet on bytes.  A byte is
\* 0..255.  What the deflate compressor emits is kept symbolic: input byte b
\* becomes 256 + b and a finished stream ends with the marker 512, so deflated
\* bytes differ from the input and inflating is not the identity on bytes.

\* a writer that always emits five groups
VarInt_write_padded(v) ==
    LET w == IF v >= 0 THEN v ELSE v + 2147483647 + 1
    IN  <<(w % 128) + 128, ((w \div 128) % 128) + 128,
          ((w \div 16384) % 128) + 128, ((w \div 2097152) % 128) + 128,
          (w \div 268435456) + (IF v < 0 THEN 8 ELSE 0)>>

\* VarInt::write
RECURSIVE VarIntWriteU(_)
VarIntWriteU(u) ==
    IF u < 128 THEN <<u>> ELSE <<(u % 128) + 128>> \o VarIntWriteU(u \div 128)
VarInt_write(v) ==
    IF v >= 0 THEN VarIntWriteU(v)
    ELSE LET w == v + 2147483647 + 1       \* (v as u32) without bit 31
         IN  <<(w % 128) + 128, ((w \div 128) % 128) + 128,
               ((w \div 16384) % 128) + 128, ((w \div 2097152) % 128) + 128,
               (w \div 268435456) + 8>>

\* VarInt::read / Connection::read_varint, from byte i on; value is an i32
RECURSIVE VarIntReadAt(_, _, _, _)
VarIntReadAt(bytes, i, position, value) ==
    IF i > Len(bytes)
    THEN [res |-> "Io", value |-> 0, used |-> Len(bytes)]          \* read_exact: EOF
    ELSE LET byte == bytes[i] % 256
             low  == byte % 128
             v1   == IF position < 28
                     THEN value + low * (2 ^ position)
                     ELSE LET u == value + (low % 8) * 268435456  \* << 28 in 32 bits
                          IN  IF (low \div 8) % 2 = 1 THEN u - 2147483647 - 1 ELSE u
         IN  IF byte < 128 THEN [res |-> "Ok", value |-> v1, used |-> i]
             ELSE IF position + 7 >= 32
                  THEN [res |-> "Protocol", value |-> 0, used |-> i]
                  ELSE VarIntReadAt(bytes, i + 1, position + 7, v1)
\* a reader that starts one group late
VarInt_read_shifted(bytes) == VarIntReadAt(bytes, 1, 7, 0)
VarInt_read(bytes) == VarIntReadAt(bytes, 1, 0, 0)

\* a finished deflate stream of u (FlushCompress::Finish)
Deflate(u) == [i \in 1..Len(u) |-> 256 + u[i]] \o <<512>>

\* Decompress::decompress in the loop of decompress_packet: the leading data
\* symbols are inflated into a buffer of uncompressed_length bytes.  The loop
\* leaves with Status::Ok as soon as the buffer is full; a stream that ends
\* early (StreamEnd) gives a length mismatch, input that runs out gives
\* BufError, both Protocol errors; bytes that are no deflate data make
\* decompress fail (ServerError::Decompression).
RECURSIVE DataSymbols(_, _)
DataSymbols(z, i) ==
    IF i <= Len(z) /\ z[i] >= 256 /\ z[i] < 512 THEN DataSymbols(z, i + 1) ELSE i - 1
Inflate(z, uncompressed_length) ==
    LET n == DataSymbols(z, 1)
    IN  IF n >= uncompressed_length
        THEN [res |-> "Ok", bytes |-> [i \in 1..uncompressed_length |-> z[i] - 256]]
        ELSE IF n < Len(z) /\ z[n + 1] < 256
             THEN [res |-> "Decompression", bytes |-> <<>>]
             ELSE [res |-> "Protocol", bytes |-> <<>>]

\* what read_packet / decompress_packet return: Ok((packet_id, data)) or Err
Packet(res, id, body) == [res |-> res, id |-> id, body |-> body]

\* the tail shared by both readers: VarInt::read the id, the rest is the body
split_packet(bytes) ==
    LET id == VarInt_read(bytes)
    IN  IF id.res # "Ok" THEN Packet(id.res, 0, <<>>)
        ELSE Packet("Ok", id.value, SubSeq(bytes, id.used + 1, Len(bytes)))

\* Compression::compress_packet.  The loop calls compress(.., FlushCompress::None)
\* and leaves on Status::Ok once all input is consumed, before any call with
\* FlushCompress::Finish: the compressor still holds the tail of the stream.
\* flushed = the input bytes whose output had left the compressor by then.
Compression_compress_packet(threshold, packet_id, data, flushed) ==
    LET uncompressed_data == VarInt_write(packet_id) \o data
        uncompressed_length == Len(uncompressed_data)
        compressed_data == SubSeq(Deflate(uncompressed_data), 1, flushed)
        result == VarInt_write(uncompressed_length) \o compressed_data
    IN  IF uncompressed_length > MAX_UNCOMPRESSED_PACKET_SIZE
        THEN [res |-> "Protocol", bytes |-> <<>>]
        ELSE IF uncompressed_length < threshold
        THEN [res |-> "Ok", bytes |-> VarInt_write(0) \o uncompressed_data]
        ELSE IF Len(result) > MAX_PACKET_SIZE
        THEN [res |-> "Protocol", bytes |-> <<>>]
        ELSE [res |-> "Ok", bytes |-> result]

\* Compression::decompress_packet with > for >= in the literal-length check
Compression_decompress_packet_gt(threshold, data) ==
    LET data_length == VarInt_read(data)
        compressed_data == SubSeq(data, data_length.used + 1, Len(data))
    IN  IF data_length.res # "Ok" THEN Packet(data_length.res, 0, <<>>)
        ELSE IF data_length.value < 0 THEN Packet("Protocol", 0, <<>>)
        ELSE IF data_length.value = 0
        THEN IF Len(compressed_data) > threshold
             THEN Packet("Protocol", 0, <<>>)
             ELSE split_packet(compressed_data)
        ELSE IF data_length.value > MAX_UNCOMPRESSED_PACKET_SIZE
        THEN Packet("Protocol", 0, <<>>)
        ELSE IF data_length.value < threshold THEN Packet("Protocol", 0, <<>>)
        ELSE LET inf == Inflate(compressed_data, data_length.value)
             IN  IF inf.res # "Ok" THEN Packet(inf.res, 0, <<>>)
                 ELSE split_packet(inf.bytes)

\* Compression::decompress_packet
Compression_decompress_packet(threshold, data) ==
    LET data_length == VarInt_read(data)
        compressed_data == SubSeq(data, data_length.used + 1, Len(data))
    IN  IF data_length.res # "Ok" THEN Packet(data_length.res, 0, <<>>)
        ELSE IF data_length.value < 0 THEN Packet("Protocol", 0, <<>>)
        ELSE IF data_length.value = 0
        THEN IF Len(compressed_data) >= threshold
             THEN Packet("Protocol", 0, <<>>)
             ELSE split_packet(compressed_data)
        ELSE IF data_length.value > MAX_UNCOMPRESSED_PACKET_SIZE
        THEN Packet("Protocol", 0, <<>>)
        ELSE IF data_length.value < threshold THEN Packet("Protocol", 0, <<>>)
        ELSE LET inf == Inflate(compressed_data, data_length.value)
             IN  IF inf.res # "Ok" THEN Packet(inf.res, 0, <<>>)
                 ELSE split_packet(inf.bytes)

\* Connection::write_packet: final_data
Connection_write_packet(compression, packet_id, packet_data, flushed) ==
    IF compression # None
    THEN Compression_compress_packet(compression[1], packet_id, packet_data, flushed)
    ELSE LET total_length == VarInt_len(packet_id) + Len(packet_data)
         IN  [res |-> "Ok",
              bytes |-> VarInt_write(as_i32(total_length)) \o VarInt_write(packet_id)
                           \o packet_data]

\* what one read_packet call did: the packet or the error, the payload bytes
\* it took off the stream after the length prefix, and the stream it left
ReadResult(pkt, read, rest) ==
    [res |-> pkt.res, id |-> pkt.id, body |-> pkt.body, read |-> read, rest |-> rest]

\* Connection::read_packet rejecting length >= MAX_PACKET_SIZE
Connection_read_packet_ge(compression, stream) ==
    LET packet_length == VarInt_read(stream)
        after == SubSeq(stream, packet_length.used + 1, Len(stream))
        length == packet_length.value
        data == SubSeq(after, 1, length)
    IN  IF packet_length.res # "Ok"
        THEN ReadResult(Packet(packet_length.res, 0, <<>>), 0, <<>>)
        ELSE IF length < 0 THEN ReadResult(Packet("Protocol", 0, <<>>), 0, after)
        ELSE IF length = 0 THEN ReadResult(Packet("Protocol", 0, <<>>), 0, after)
        ELSE IF length >= MAX_PACKET_SIZE
        THEN ReadResult(Packet("Protocol", 0, <<>>), 0, after)
        ELSE IF Len(after) < length
        THEN ReadResult(Packet("Io", 0, <<>>), 0, <<>>)
        ELSE ReadResult(IF compression # None
                        THEN Compression_decompress_packet(compression[1], data)
                        ELSE split_packet(data),
                        length, SubSeq(after, length + 1, Len(after)))

\* a reader that takes whatever the stream still holds as the packet data
Connection_read_packet_lenient(compression, stream) ==
    LET packet_length == VarInt_read(stream)
        after == SubSeq(stream, packet_length.used + 1, Len(stream))
    IN  IF packet_length.res # "Ok"
        THEN ReadResult(Packet(packet_length.res, 0, <<>>), 0, <<>>)
        ELSE ReadResult(IF compression # None
                        THEN Compression_decompress_packet(compression[1], after)
                        ELSE split_packet(after),
                        Len(after), <<>>)

\* Connection::read_packet on the bytes the stream holds; the stream ends
\* (the peer closed) where the bytes end
Connection_read_packet(compression, stream) ==
    LET packet_length == VarInt_read(stream)
        after == SubSeq(stream, packet_length.used + 1, Len(stream))
        length == packet_length.value
        data == SubSeq(after, 1, length)
    IN  IF packet_length.res # "Ok"
        THEN ReadResult(Packet(packet_length.res, 0, <<>>), 0, <<>>)
        ELSE IF length < 0 THEN ReadResult(Packet("Protocol", 0, <<>>), 0, after)
        ELSE IF length = 0 THEN ReadResult(Packet("Protocol", 0, <<>>), 0, after)
        ELSE IF length > MAX_PACKET_SIZE
        THEN ReadResult(Packet("Protocol", 0, <<>>), 0, after)
        ELSE IF Len(after) < length
        THEN ReadResult(Packet("Io", 0, <<>>), 0, <<>>)          \* read_exact: EOF
        ELSE ReadResult(IF compression # None
                        THEN Compression_decompress_packet(compression[1], data)
                        ELSE split_packet(data),
                        length, SubSeq(after, length + 1, Len(after)))

\* ProtocolState::should_compress
should_compress(ps, packet_size) ==
    IF ~ps.compression_enabled THEN FALSE
    ELSE IF ps.compression_threshold # None
         THEN packet_size >= ps.compression_threshold[1]
         ELSE FALSE

\* ---------------------------------------------------- framing: input domains
WireCodecs == {None, Some(2), Some(4)}      \* both ends: Option<Compression>
WireIds == {0, 128}                          \* a one-byte and a two-byte packet id
WireDatas == {<<>>, <<7>>, <<7, 9>>, <<7, 9, 9>>}
\* frames a peer builds by hand: any length prefix, any data_length
PeerLengths == {-1, 0, MAX_PACKET_SIZE, MAX_PACKET_SIZE + 1}
PeerDataLengths == {-1, 0, 1, 4, MAX_UNCOMPRESSED_PACKET_SIZE + 1}
PeerRests == {<<3>>, <<3, 7>>, <<128, 1, 7>>, <<3, 7, 9, 9>>, Deflate(<<3, 7, 9, 9>>)}

FromServer(id, data, bytes) ==
    [src |-> "server", id |-> id, body |-> data, length |-> 0, data_length |-> 0,
     rest |-> <<>>, bytes |-> bytes]
FromPeer(length, data_length, rest, bytes) ==
    [src |-> "peer", id |-> 0, body |-> <<>>, length |-> length,
     data_length |-> data_length, rest |-> rest, bytes |-> bytes]

\* ------------------------------------------------------- framing: actions
FramingInit ==
    /\ config = [compression_threshold |-> None, max_players |-> [hi |-> 0, lo |-> 20],
                 view_distance |-> 12, simulation_distance |-> 12]
    /\ channel = <<>>
    /\ task = [c \in Conns |-> "unborn"]
    /\ connection = [c \in Conns |-> NewConnection]
    /\ sent = [c \in Conns |-> <<>>]
    /\ status = [c \in Conns |-> [online |-> 0, protocol |-> PROTOCOL_VERSION]]
    /\ players = [u \in UUIDs |-> None]
    /\ connections = [c \in Conns |-> None]
    /\ status_online = 0
    /\ prev_online = 0
    /\ script = [c \in Conns |-> [step |-> 0, ls |-> None]]
    /\ idle = [c \in Conns |-> 0]
    /\ dir_pc = [c \in Conns |-> DirIdle]
    /\ call = CallIdle
    /\ locks = LocksIdle
    /\ codec \in WireCodecs
    /\ wire = <<>>
    /\ wrote = <<>>
    /\ got = <<>>

\* the writer calls write_packet
WritePacket(id, data, flushed) ==
    /\ Len(wrote) < MaxFrames
    /\ flushed \in {0, VarInt_len(id) + Len(data) - 1}
    /\ LET w == Connection_write_packet(codec, id, data, flushed)
       IN  /\ w.res = "Ok"
           /\ wire' = wire \o w.bytes
           /\ wrote' = Append(wrote, FromServer(id, data, w.bytes))
    /\ UNCHANGED <<locks, server_vars, dir_pc, call, codec, got>>

\* a peer puts a frame on the wire: packet_length, data_length, rest.  The
\* length prefix is the true one or one of PeerLengths.
TrueLength(data_length, rest) == Len(VarInt_write(data_length) \o rest)
PeerSend(length, data_length, rest) ==
    /\ Len(wrote) < MaxFrames
    /\ length # TrueLength(data_length, rest) => (data_length = 0 /\ rest = <<3>>)
    /\ LET bytes == VarInt_write(length) \o VarInt_write(data_length) \o rest
       IN  /\ wire' = wire \o bytes
           /\ wrote' = Append(wrote, FromPeer(length, data_length, rest, bytes))
    /\ UNCHANGED <<locks, server_vars, dir_pc, call, codec, got>>

\* the reader calls read_packet; after an error the connection is dropped
ReadPacket ==
    /\ wire # <<>>
    /\ IF got = <<>> THEN TRUE ELSE got[Len(got)].res = "Ok"
    /\ LET r == Connection_read_packet(codec, wire)
       IN  /\ wire' = r.rest
           /\ got' = Append(got, [res |-> r.res, id |-> r.id, body |-> r.body,
                                  read |-> r.read, after |-> Len(wrote)])
    /\ UNCHANGED <<locks, server_vars, dir_pc, call, codec, wrote>>

FramingNext ==
    \/ \E id \in WireIds, data \in WireDatas, flushed \in 0..4 :
          WritePacket(id, data, flushed)
    \/ \E data_length \in PeerDataLengths, rest \in PeerRests :
          \E length \in PeerLengths \cup {TrueLength(data_length, rest)} :
              PeerSend(length, data_length, rest)
    \/ ReadPacket

FramingSpec == FramingInit /\ [][FramingNext]_vars

\* ---------------------------------------------------------------- C12
\* C12: read_packet returns a Protocol error, reading no payload and
\* delivering no packet, when the VarInt length prefix is negative, zero or
\* greater than MAX_PACKET_SIZE; for a length in 1..MAX_PACKET_SIZE it reads
\* exactly that many bytes as the frame body (and waits for them, failing with
\* an I/O error if the stream ends first).
C12_ReadPacketLength ==
    [][(got = <<>> /\ wrote # <<>> /\ wrote[1].src = "peer" /\ ReadPacket)
        => LET length == wrote[1].length
               prefix == Len(VarInt_write(length))
               r == got'[1]
           IN  /\ (length < 0 \/ length = 0 \/ length > MAX_PACKET_SIZE)
                  => /\ r.res = "Protocol"
                     /\ r.read = 0
                     /\ r.body = <<>>
                     /\ wire' = SubSeq(wire, prefix + 1, Len(wire))
               /\ (1 <= length /\ length <= MAX_PACKET_SIZE)
                  => IF Len(wire) - prefix >= length
                     THEN /\ r.read = length
                          /\ wire' = SubSeq(wire, prefix + length + 1, Len(wire))
                     ELSE r.res = "Io" /\ r.read = 0]_vars

\* a frame of true length 3 was read whole, the next one, announcing
\* MAX_PACKET_SIZE + 1 bytes, was refused
C12_Witness ==
    /\ codec = None
    /\ Len(wrote) = 2 /\ Len(got) = 2
    /\ wrote[1].src = "peer" /\ wrote[1].length = 3
    /\ got[1].res = "Ok" /\ got[1].read = 3 /\ got[1].after = 2
    /\ wrote[2].src = "peer" /\ wrote[2].length = MAX_PACKET_SIZE + 1
    /\ got[2].res = "Protocol" /\ got[2].read = 0

\* ---------------------------------------------------------------- C13
\* C13: with compression enabled every frame write_packet writes begins with
\* the VarInt packet_length, equal to the number of bytes that follow it: the
\* uncompressed_length VarInt plus the literal or deflated payload.
C13_OuterLength ==
    [][\A id \in WireIds, data \in WireDatas, flushed \in 0..4 :
          (codec # None /\ WritePacket(id, data, flushed))
          => LET new == wrote'[Len(wrote')].bytes
                 inner == Compression_compress_packet(codec[1], id, data, flushed).bytes
             IN  new = VarInt_write(Len(inner)) \o inner]_vars

\* ---------------------------------------------------------------- C14
\* C14: with the same compression setting on both ends, the bytes of two
\* successive write_packet calls are parsed by two successive read_packet
\* calls as the same two (packet id, body) pairs, in order.
C14_Concatenation ==
    (/\ Len(wrote) >= 2
     /\ wrote[1].src = "server" /\ wrote[2].src = "server"
     /\ got # <<>>
     /\ got[1].after >= 2)
    => /\ got[1].res = "Ok"
       /\ got[1].id = wrote[1].id /\ got[1].body = wrote[1].body
       /\ IF Len(got) >= 2
          THEN /\ got[2].res = "Ok"
               /\ got[2].id = wrote[2].id /\ got[2].body = wrote[2].body
          ELSE wire # <<>>

\* ---------------------------------------------------------------- C15
\* C15: with compression enabled at threshold t, a packet whose id-plus-body
\* length n is < t goes out as uncompressed_length 0 followed by the literal
\* id and body; one with n >= t (n = t included) goes out as
\* uncompressed_length n > 0 followed by the deflated id and body;
\* ProtocolState::should_compress decides the same way for the same n and t.
C15_ThresholdDecision ==
    [][\A id \in WireIds, data \in WireDatas, flushed \in 0..4 :
          (codec # None /\ WritePacket(id, data, flushed))
          => LET t == codec[1]
                 u == VarInt_write(id) \o data
                 n == Len(u)
                 new == wrote'[Len(wrote')].bytes
                 out == Compression_compress_packet(t, id, data, flushed).bytes
                 ps == enable_compression(set_state(NewConnection, "Login"), t)
             IN  /\ Len(new) >= Len(out)
                 /\ SubSeq(new, Len(new) - Len(out) + 1, Len(new)) = out
                 /\ n < t => out = VarInt_write(0) \o u
                 /\ n >= t => (n > 0 /\ out = VarInt_write(n) \o Deflate(u))
                 /\ should_compress(ps, n) <=> (n >= t)]_vars

\* ---------------------------------------------------------------- C16
\* C16: decompress_packet with threshold t returns a Protocol error and no
\* packet when uncompressed_length is 0 and the literal body is t bytes or
\* longer, when uncompressed_length is non-zero and below t, when it is
\* negative, and when it exceeds MAX_UNCOMPRESSED_PACKET_SIZE; a literal body
\* shorter than t with uncompressed_length 0 is accepted and split into packet
\* id and fields.
C16_DecompressChecks ==
    [][(/\ codec # None /\ got = <<>> /\ wrote # <<>>
        /\ wrote[1].src = "peer"
        /\ wrote[1].length = TrueLength(wrote[1].data_length, wrote[1].rest)
        /\ ReadPacket)
        => LET t == codec[1]
               dl == wrote[1].data_length
               rest == wrote[1].rest
               r == got'[1]
               refused == r.res = "Protocol" /\ r.id = 0 /\ r.body = <<>>
           IN  /\ (dl = 0 /\ Len(rest) >= t) => refused
               /\ (dl # 0 /\ dl < t) => refused
               /\ dl < 0 => refused
               /\ dl > MAX_UNCOMPRESSED_PACKET_SIZE => refused
               /\ (dl = 0 /\ Len(rest) < t)
                  => /\ r.res = "Ok"
                     /\ VarInt_write(r.id) \o r.body = rest]_vars

\* threshold 4: a literal body of 3 bytes was split into id 128 and one field,
\* then a literal body of exactly 4 bytes was refused
C16_Witness ==
    /\ codec = Some(4)
    /\ Len(wrote) = 2 /\ Len(got) = 2
    /\ wrote[1].src = "peer" /\ wrote[1].data_length = 0 /\ wrote[1].rest = <<128, 1, 7>>
    /\ got[1].res = "Ok" /\ got[1].id = 128 /\ got[1].body = <<7>>
    /\ wrote[2].src = "peer" /\ wrote[2].data_length = 0 /\ Len(wrote[2].rest) = 4
    /\ wrote[2].length = 5
    /\ got[2].res = "Protocol"

\* ---------------------------------------------------------------- C17
\* C17: for every threshold, packet id and body, and for every packet of a
\* sequence pushed through the same Compression instance,
\* decompress_packet(compress_packet(id, body)) = (id, body), on the literal
\* path and on the deflate path.
C17_RoundTrip ==
    [][\A id \in WireIds, data \in WireDatas, flushed \in 0..4 :
          (codec # None /\ WritePacket(id, data, flushed))
          => LET c == Compression_compress_packet(codec[1], id, data, flushed)
             IN  /\ c.res = "Ok"
                 /\ Compression_decompress_packet(codec[1], c.bytes)
                      = Packet("Ok", id, data)]_vars

\* ============================================================ ProtocolState
\* The operations of ProtocolState, reached through its Connection, applied
\* in any order with any argument.
StateThresholds == {0, 64, 256}
StateVersions == {47, PROTOCOL_VERSION}

StateInit == Init /\ config.compression_threshold = None

\* Connection::set_state -> ProtocolState::transition_to
TransitionTo(c, new_state) ==
    /\ connection' = [connection EXCEPT ![c] = set_state(@, new_state)]
    /\ UNCHANGED <<locks, config, channel, task, sent, status, players, connections,
                   status_online, prev_online, script, idle, wire_vars, call, dir_pc>>

\* Connection::enable_compression -> ProtocolState::enable_compression
EnableCompression(c, threshold) ==
    /\ connection' = [connection EXCEPT ![c] = enable_compression(@, threshold)]
    /\ UNCHANGED <<locks, config, channel, task, sent, status, players, connections,
                   status_online, prev_online, script, idle, wire_vars, call, dir_pc>>

\* ProtocolState::disable_compression
DisableCompression(c) ==
    /\ connection' = [connection EXCEPT ![c] = disable_compression(@)]
    /\ UNCHANGED <<locks, config, channel, task, sent, status, players, connections,
                   status_online, prev_online, script, idle, wire_vars, call, dir_pc>>

\* Connection::set_protocol_version -> ProtocolState::set_protocol_version
SetProtocolVersion(c, version) ==
    /\ connection' = [connection EXCEPT ![c] = set_protocol_version(@, version)]
    /\ UNCHANGED <<locks, config, channel, task, sent, status, players, connections,
                   status_online, prev_online, script, idle, wire_vars, call, dir_pc>>

StateNext ==
    \/ \E c \in Conns, new_state \in ConnectionState : TransitionTo(c, new_state)
    \/ \E c \in Conns, threshold \in StateThresholds : EnableCompression(c, threshold)
    \/ \E c \in Conns : DisableCompression(c)
    \/ \E c \in Conns, version \in StateVersions : SetProtocolVersion(c, version)

StateSpec == StateInit /\ [][StateNext]_vars

\* ---------------------------------------------------------------- C18
\* C18: after any sequence of ProtocolState operations, compression_enabled
\* = true implies compression_threshold = Some(t) for some t.
C18_EnabledHasThreshold ==
    \A c \in Conns :
        connection[c].compression_enabled
        => /\ connection[c].compression_threshold # None
           /\ connection[c].compression_threshold[1] \in StateThresholds

\* one ProtocolState enabled at 256 and since moved to Status with a protocol
\* version set; the other enabled once and disabled again
C18_Witness ==
    \E c, d \in Conns :
        /\ connection[c].compression_enabled
        /\ connection[c].compression_threshold = Some(256)
        /\ connection[c].state = "Status"
        /\ connection[c].protocol_version = Some(47)
        /\ ~connection[d].compression_enabled
        /\ connection[d].compression_threshold = None
        /\ connection[d].compression = Some(64)
        /\ connection[d].state = "Play"

PlayerAt ==
    [c \in Conns |-> IF c = "10.0.0.1:50000" THEN Player(1, "Alex")
                     ELSE Player(2, "Steve")]

DirectoryInit == Init /\ config.compression_threshold = None

\* add_player, first scope: players.write().insert(uuid, player)
AddPlayer_players(c) ==
    /\ dir_pc[c].op = "idle"
    /\ players' = [players EXCEPT ![PlayerAt[c].uuid] = Some(PlayerAt[c])]
    /\ dir_pc' = [dir_pc EXCEPT ![c].op = "add", ![c].uuid = Some(PlayerAt[c].uuid)]
    /\ UNCHANGED <<locks, config, channel, task, connection, sent, status, connections,
                   status_online, prev_online, script, idle, wire_vars, call>>

\* add_player, second scope: connections.write().insert(addr, uuid)
AddPlayer_connections(c) ==
    /\ dir_pc[c].op = "add"
    /\ connections' = [connections EXCEPT ![c] = dir_pc[c].uuid]
    /\ dir_pc' = [dir_pc EXCEPT ![c].op = "idle", ![c].uuid = None]
    /\ UNCHANGED <<locks, config, channel, task, connection, sent, status, players,
                   status_online, prev_online, script, idle, wire_vars, call>>

\* remove_player, first scope: connections.write().remove(addr)
RemovePlayer_connections(c) ==
    /\ dir_pc[c].op = "idle"
    /\ connections' = [connections EXCEPT ![c] = None]
    /\ dir_pc' = IF connections[c] # None
                 THEN [dir_pc EXCEPT ![c].op = "remove", ![c].uuid = connections[c]]
                 ELSE dir_pc
    /\ UNCHANGED <<locks, config, channel, task, connection, sent, status, players,
                   status_online, prev_online, script, idle, wire_vars, call>>

\* remove_player, second scope: players.write().remove(uuid)
RemovePlayer_players(c) ==
    /\ dir_pc[c].op = "remove"
    /\ players' = [players EXCEPT ![dir_pc[c].uuid[1]] = None]
    /\ dir_pc' = [dir_pc EXCEPT ![c].op = "idle", ![c].uuid = None]
    /\ UNCHANGED <<locks, config, channel, task, connection, sent, status, connections,
                   status_online, prev_online, script, idle, wire_vars, call>>

\* get_player_by_addr, first scope: connections.read().get(addr)
GetPlayerByAddr_connections(c, addr) ==
    /\ dir_pc[c].op = "idle"
    /\ dir_pc' = IF connections[addr] # None
                 THEN [dir_pc EXCEPT ![c].op = "get", ![c].uuid = connections[addr]]
                 ELSE [dir_pc EXCEPT ![c].found = None]
    /\ UNCHANGED <<locks, config, channel, task, connection, sent, status, players,
                   connections, status_online, prev_online, script, idle, wire_vars, call>>

\* get_player_by_addr, second scope: get_player(uuid)
GetPlayerByAddr_players(c) ==
    /\ dir_pc[c].op = "get"
    /\ dir_pc' = [dir_pc EXCEPT ![c].op = "idle", ![c].uuid = None,
                                ![c].found = players[dir_pc[c].uuid[1]]]
    /\ UNCHANGED <<locks, config, channel, task, connection, sent, status, players,
                   connections, status_online, prev_online, script, idle, wire_vars, call>>

\* player_count, read by the server tick
PlayerCount ==
    /\ status_online' = player_count(players)
    /\ UNCHANGED <<locks, config, channel, task, connection, sent, status, players,
                   connections, prev_online, script, idle, wire_vars, call, dir_pc>>

DirectoryNext ==
    \/ \E c \in Conns : AddPlayer_players(c)
    \/ \E c \in Conns : AddPlayer_connections(c)
    \/ \E c \in Conns : RemovePlayer_connections(c)
    \/ \E c \in Conns : RemovePlayer_players(c)
    \/ \E c, addr \in Conns : GetPlayerByAddr_connections(c, addr)
    \/ \E c \in Conns : GetPlayerByAddr_players(c)
    \/ PlayerCount

DirectorySpec == DirectoryInit /\ [][DirectoryNext]_vars

\* ---------------------------------------------------------------- C20
\* C20: add_player and remove_player update the two maps atomically: in no
\* state a reader can run in does one map reflect an insertion or removal that
\* the other does not, i.e. an address has its entry exactly when its player
\* has its record.
C20_MapsAgree ==
    \A c \in Conns :
        (connections[c] # None) <=> (players[PlayerAt[c].uuid] # None)

\* ---------------------------------------------------------------- C34
\* C34: a connection is in Play, or has LoginPlay among the frames written to
\* it, only if FinishConfiguration was written to it before.
C34_FinishConfigurationFirst ==
    \A c \in Conns :
        LET names == Names_of(sent[c])
            has(n) == \E i \in 1..Len(names) : names[i] = n
        IN  /\ connection[c].state = "Play" => has("FinishConfiguration")
            /\ has("LoginPlay")
                 => Index_of(sent[c], "FinishConfiguration")
                      < Index_of(sent[c], "LoginPlay")

\* ---------------------------------------------------------------- C35
\* C35: while the task of a connection in Configuration or Play runs,
\* get_player_by_addr of its peer address returns a player.
C35_EntryWhileRunning ==
    \A c \in Conns :
        (task[c] = "running" /\ connection[c].state \in {"Configuration", "Play"})
        => get_player_by_addr(Dir, c) # None

\* ---------------------------------------------------------------- C36
\* C36: player_count() equals the number of connections in Configuration or
\* Play, counting either the connections whose task still runs or all of them.
C36_CountMatchesConnections ==
    LET logged == {c \in Conns : connection[c].state \in {"Configuration", "Play"}}
    IN  \/ player_count(players) = Cardinality({c \in logged : task[c] = "running"})
        \/ player_count(players) = Cardinality(logged)

\* ---------------------------------------------------------------- C38
\* C38: when a write fails while LoginStart is handled, the task ends with an
\* error, the directory has no entry for the peer address and the connection
\* stays in Login; nothing changes for that connection afterwards.
C38_FailedLoginLeavesNothing ==
    [][\A c \in Conns :
          /\ (Running(c, "Login") /\ task'[c] = "Err(Io)")
             => /\ connections'[c] = None
                /\ get_player_by_addr([players |-> players', connections |-> connections'], c)
                     = None
                /\ connection'[c].state = "Login"
          /\ task[c] = "Err(Io)"
             => /\ task'[c] = task[c]
                /\ connection'[c] = connection[c]
                /\ connections'[c] = connections[c]]_vars
C38_Witness ==
    \E c \in Conns :
        /\ task[c] = "Err(Io)"
        /\ connection[c].state = "Login"
        /\ Names_of(sent[c]) = <<"SetCompression">>
        /\ connection[c].compression # None
        /\ connections[c] = None

\* C28: the LoginPlay packet sent on entering Play has entity_id = 1,
\* max_players = config.max_players, view_distance and simulation_distance
\* equal to the config values, dimension_names = ["minecraft:overworld"],
\* game_mode = 0 and previous_game_mode = -1, for every ServerConfig and
\* every connection.
C28_LoginPlayFields ==
    \A c \in Conns : \A i \in 1..Len(sent[c]) :
        sent[c][i].name = "LoginPlay" =>
            LET lp == sent[c][i].body
            IN  /\ connection[c].state = "Play"
                /\ lp.entity_id = 1
                /\ lp.max_players >= 0
                /\ lp.max_players \div 65536 = config.max_players.hi
                /\ lp.max_players % 65536 = config.max_players.lo
                /\ lp.view_distance = config.view_distance
                /\ lp.simulation_distance = config.simulation_distance
                /\ lp.dimension_names = <<"minecraft:overworld">>
                /\ lp.game_mode = 0
                /\ lp.previous_game_mode = -1

\* ======================================================================
\*  types.rs primitives and the packet codecs built from them, as functions
\*  from values to bytes and from bytes to Result<value>.  A reader is a
\*  cursor over a byte string; "used" is how many bytes it consumed.
\* ======================================================================

\* VarLong::read, from byte i on.  The i64 is kept as its 64 bits, bit 0 first.
Zero64 == [k \in 0..63 |-> 0]
RECURSIVE VarLongReadAt(_, _, _, _)
VarLongReadAt(bytes, i, position, value) ==
    IF i > Len(bytes)
    THEN [res |-> "Io", value |-> Zero64, used |-> Len(bytes)]       \* read_exact: EOF
    ELSE LET byte == bytes[i]
             low  == byte % 128
             v1   == [k \in 0..63 |->
                         IF k >= position /\ k < position + 7
                            /\ (low \div (2 ^ (k - position))) % 2 = 1
                         THEN 1 ELSE value[k]]
         IN  IF byte < 128 THEN [res |-> "Ok", value |-> v1, used |-> i]
             ELSE IF position + 7 >= 64
                  THEN [res |-> "Protocol", value |-> Zero64, used |-> i]
                  ELSE VarLongReadAt(bytes, i + 1, position + 7, v1)
VarLong_read(bytes) == VarLongReadAt(bytes, 1, 0, Zero64)

\* read_bool / write_bool
read_bool(bytes) ==
    IF bytes = <<>> THEN [res |-> "Io", value |-> FALSE, used |-> 0]
    ELSE [res |-> "Ok", value |-> bytes[1] # 0, used |-> 1]
write_bool(value) == <<IF value THEN 1 ELSE 0>>

\* bits lo .. lo+n-1 of an i64 given as its 8 big-endian bytes, as an unsigned
RECURSIVE Bits(_, _, _)
Bits(bytes, lo, n) ==
    IF n = 0 THEN 0
    ELSE ((bytes[8 - (lo \div 8)] \div (2 ^ (lo % 8))) % 2) + 2 * Bits(bytes, lo + 1, n - 1)

\* a writer that packs x, y, z in that order (26, 12 and 26 bits)
Position_write_xyz(p) ==
    LET X == p.x % 67108864
        Y == p.y % 4096
        Z == p.z % 67108864
    IN  <<X \div 262144, (X \div 1024) % 256, (X \div 4) % 256,
          (X % 4) * 64 + (Y \div 64), (Y % 64) * 4 + (Z \div 16777216),
          (Z \div 65536) % 256, (Z \div 256) % 256, Z % 256>>

\* Position::write: val.to_be_bytes() of
\* ((x & 0x3FFFFFF) << 38) | ((z & 0x3FFFFFF) << 12) | (y & 0xFFF)
Position_write(p) ==
    LET X == p.x % 67108864
        Z == p.z % 67108864
        Y == p.y % 4096
    IN  <<X \div 262144, (X \div 1024) % 256, (X \div 4) % 256,
          (X % 4) * 64 + (Z \div 1048576), (Z \div 4096) % 256,
          (Z \div 16) % 256, (Z % 16) * 16 + (Y \div 256), Y % 256>>

\* Position::read: val >> 38, val << 52 >> 52 and val << 26 >> 38 are
\* arithmetic shifts of an i64, so each field is sign-extended
Position_read(bytes) ==
    IF Len(bytes) < 8
    THEN [res |-> "Io", value |-> [x |-> 0, y |-> 0, z |-> 0], used |-> Len(bytes)]
    ELSE LET X == Bits(bytes, 38, 26)
             Y == Bits(bytes, 0, 12)
             Z == Bits(bytes, 12, 26)
         IN  [res |-> "Ok",
              value |-> [x |-> IF X >= 33554432 THEN X - 67108864 ELSE X,
                         y |-> IF Y >= 2048 THEN Y - 4096 ELSE Y,
                         z |-> IF Z >= 33554432 THEN Z - 67108864 ELSE Z],
              used |-> 8]

\* Identifier::namespace / Identifier::path.  A String is the sequence of
\* its characters; str.split(':') yields the pieces between the colons.
FirstColon(s, from) ==
    IF \E k \in from..Len(s) : s[k] = ":"
    THEN CHOOSE k \in from..Len(s) : s[k] = ":" /\ \A j \in from..(k - 1) : s[j] # ":"
    ELSE Len(s) + 1
Identifier_namespace(s) == SubSeq(s, 1, FirstColon(s, 1) - 1)      \* .next()
Identifier_path(s) ==                                               \* .nth(1)
    LET c == FirstColon(s, 1)
    IN  IF c > Len(s) THEN s                                        \* unwrap_or(&self.0)
        ELSE SubSeq(s, c + 1, FirstColon(s, c + 1) - 1)

\* what is left for the next field reader after `used` bytes were consumed
Rest(bytes, used) == SubSeq(bytes, used + 1, Len(bytes))

\* String::from_utf8 succeeds: every byte is a lead byte followed by as many
\* continuation bytes as it announces, or a continuation byte of such a lead
is_utf8(b) ==
    LET width(c) == IF c < 128 THEN 1 ELSE IF c \in 194..223 THEN 2
                    ELSE IF c \in 224..239 THEN 3 ELSE IF c \in 240..244 THEN 4 ELSE 0
        cont(i) == i >= 1 /\ i <= Len(b) /\ b[i] \in 128..191
    IN  \A i \in 1..Len(b) :
            IF b[i] \in 128..191
            THEN \E k \in 1..3 : /\ i - k >= 1
                                 /\ width(b[i - k]) > k
                                 /\ \A j \in 1..(k - 1) : cont(i - j)
            ELSE /\ width(b[i]) >= 1
                 /\ \A k \in 1..(width(b[i]) - 1) : cont(i + k)
                 /\ (b[i] = 224 => b[i + 1] >= 160) /\ (b[i] = 237 => b[i + 1] <= 159)
                 /\ (b[i] = 240 => b[i + 1] >= 144) /\ (b[i] = 244 => b[i + 1] <= 143)

\* McString::read.  A String is the sequence of its UTF-8 bytes.
McString_read(bytes) ==
    LET length == VarInt_read(bytes)
        err(res, used) == [res |-> res, value |-> <<>>, used |-> used]
    IN  IF length.res # "Ok" THEN err(length.res, length.used)
        ELSE IF length.value < 0 THEN err("Protocol", length.used)
        ELSE IF length.value > McString_MAX_LENGTH THEN err("Protocol", length.used)
        ELSE IF Len(bytes) - length.used < length.value
             THEN err("Io", Len(bytes))                            \* read_exact: EOF
        ELSE LET string == SubSeq(bytes, length.used + 1, length.used + length.value)
             IN  IF is_utf8(string)
                 THEN [res |-> "Ok", value |-> string,
                       used |-> length.used + length.value]
                 ELSE err("Protocol", length.used + length.value)

\* McString::write (the strings written here are shorter than MAX_LENGTH)
McString_write(string) == VarInt_write(Len(string)) \o string

\* Property::read / Property::write
Property_read(bytes) ==
    LET name == McString_read(bytes)
        r1 == Rest(bytes, name.used)
        value == McString_read(r1)
        r2 == Rest(r1, value.used)
        is_signed == read_bool(r2)
        signature == McString_read(Rest(r2, is_signed.used))
        err(res, used) == [res |-> res, value |-> None, used |-> used]
    IN  IF name.res # "Ok" THEN err(name.res, name.used)
        ELSE IF value.res # "Ok" THEN err(value.res, name.used + value.used)
        ELSE IF is_signed.res # "Ok" THEN err(is_signed.res, name.used + value.used)
        ELSE IF ~is_signed.value
             THEN [res |-> "Ok",
                   value |-> [name |-> name.value, value |-> value.value,
                              signature |-> None],
                   used |-> name.used + value.used + 1]
        ELSE IF signature.res # "Ok"
             THEN err(signature.res, name.used + value.used + 1 + signature.used)
        ELSE [res |-> "Ok",
              value |-> [name |-> name.value, value |-> value.value,
                         signature |-> Some(signature.value)],
              used |-> name.used + value.used + 1 + signature.used]
Property_write(property) ==
    McString_write(property.name) \o McString_write(property.value)
    \o write_bool(property.signature # None)
    \o (IF property.signature # None THEN McString_write(property.signature[1]) ELSE <<>>)

\* the loops over the properties in LoginSuccessPacket::read and ::write
RECURSIVE read_properties(_, _)
read_properties(bytes, count) ==
    IF count <= 0 THEN [res |-> "Ok", value |-> <<>>, used |-> 0]
    ELSE LET property == Property_read(bytes)
             more == read_properties(Rest(bytes, property.used), count - 1)
         IN  IF property.res # "Ok"
             THEN [res |-> property.res, value |-> <<>>, used |-> property.used]
             ELSE IF more.res # "Ok"
             THEN [res |-> more.res, value |-> <<>>, used |-> property.used + more.used]
             ELSE [res |-> "Ok", value |-> <<property.value>> \o more.value,
                   used |-> property.used + more.used]
RECURSIVE write_properties(_)
write_properties(properties) ==
    IF properties = <<>> THEN <<>>
    ELSE Property_write(Head(properties)) \o write_properties(Tail(properties))

\* LoginSuccessPacket::write.  A Uuid is its 16 bytes.
LoginSuccessPacket_write(packet) ==
    packet.uuid \o McString_write(packet.username)
    \o VarInt_write(Len(packet.properties)) \o write_properties(packet.properties)

\* LoginSuccessPacket::read
LoginSuccessPacket_read(bytes) ==
    LET r1 == Rest(bytes, 16)
        username == McString_read(r1)
        r2 == Rest(r1, username.used)
        properties_count == VarInt_read(r2)
        r3 == Rest(r2, properties_count.used)
        properties == read_properties(r3, properties_count.value)
        strict_error_handling == read_bool(Rest(r3, properties.used))
        err(res) == [res |-> res, value |-> None]
    IN  IF Len(bytes) < 16 THEN err("Io")                          \* read_uuid
        ELSE IF username.res # "Ok" THEN err(username.res)
        ELSE IF properties_count.res # "Ok" THEN err(properties_count.res)
        ELSE IF properties.res # "Ok" THEN err(properties.res)
        ELSE IF strict_error_handling.res # "Ok" THEN err(strict_error_handling.res)
        ELSE [res |-> "Ok",
              value |-> [uuid |-> SubSeq(bytes, 1, 16), username |-> username.value,
                         properties |-> properties.value,
                         strict_error_handling |-> strict_error_handling.value]]

\* HandshakePacket::read
HandshakePacket_read(bytes) ==
    LET protocol_version == VarInt_read(bytes)
        r1 == Rest(bytes, protocol_version.used)
        server_address == McString_read(r1)
        r2 == Rest(r1, server_address.used)
        next_state == VarInt_read(Rest(r2, 2))
        used2 == protocol_version.used + server_address.used
        err(res, used) == [res |-> res, value |-> None, used |-> used]
    IN  IF protocol_version.res # "Ok"
        THEN err(protocol_version.res, protocol_version.used)
        ELSE IF server_address.res # "Ok" THEN err(server_address.res, used2)
        ELSE IF Len(r2) < 2 THEN err("Io", Len(bytes))             \* port_bytes
        ELSE IF next_state.res # "Ok" THEN err(next_state.res, used2 + 2 + next_state.used)
        ELSE [res |-> "Ok",
              value |-> [protocol_version |-> protocol_version.value,
                         server_address |-> server_address.value,
                         server_port |-> r2[1] * 256 + r2[2],
                         next_state |-> next_state.value],
              used |-> used2 + 2 + next_state.used]

\* LoginStartPacket::read
LoginStartPacket_read(bytes) ==
    LET name == McString_read(bytes)
        r1 == Rest(bytes, name.used)
    IN  IF name.res # "Ok" THEN [res |-> name.res, value |-> None, used |-> name.used]
        ELSE IF Len(r1) < 16 THEN [res |-> "Io", value |-> None, used |-> Len(bytes)]
        ELSE [res |-> "Ok",
              value |-> [name |-> name.value, player_uuid |-> SubSeq(r1, 1, 16)],
              used |-> name.used + 16]

\* ------------------------------------------------------ codecs: inputs
IsPrefix(p, b) == Len(p) <= Len(b) /\ SubSeq(b, 1, Len(p)) = p
\* i32 values: the group boundaries, the extremes and the documented examples
I32Samples ==
    (-130..130) \cup {255, 16383, 16384, 25565, 2097151, 2097152, 268435455,
                      268435456, 2147483647, -2147483647, -2147483647 - 1}
\* reader inputs: every string of up to three edge bytes, and runs of
\* continuation bytes of each length up to eleven with and without an ending
ReaderInputs ==
    LET EdgeBytes == {0, 1, 2, 127, 128, 255}
    IN  {<<>>} \cup {<<a>> : a \in EdgeBytes} \cup {<<a, b>> : a, b \in EdgeBytes}
        \cup {<<a, b, c>> : a, b, c \in EdgeBytes}
        \cup {[k \in 1..n |-> c] \o t :
                  c \in {128, 255}, n \in 3..11,
                  t \in {<<>>, <<0>>, <<1>>, <<15>>, <<127>>, <<127, 9>>}}

\* block positions: the documented triple, the field extremes, and values
\* that do not fit their field
Positions ==
    [x : {18357644, 0, -1, 100, 33554431, -33554432, 33554432},
     y : {831, 0, -1, 64, 2047, -2048, 4000},
     z : {-20882616, 0, -200, 33554431, -33554432}]
\* identifier strings: everything of up to four characters over a, b and the
\* colon, and two spelled-out names
Identifiers ==
    LET Chars == {"a", "b", ":"}
    IN  {<<>>} \cup {<<c>> : c \in Chars} \cup {<<c, d>> : c, d \in Chars}
        \cup {<<c, d, e>> : c, d, e \in Chars}
        \cup {<<c, d, e, f>> : c, d, e, f \in Chars}
        \cup {<<"s", "t", "o", "n", "e">>, <<"n", "s", ":", "p", "a", "t", "h">>}

\* LoginSuccess packets: two uuids, a name or none, up to two properties
\* with and without a signature
LoginSuccessPackets ==
    LET Alex == <<65, 108, 101, 120>>
        plain == [name |-> <<116>>, value |-> <<118, 195, 169>>, signature |-> None]
        signed == [name |-> <<116>>, value |-> <<>>, signature |-> Some(<<115, 103>>)]
    IN  [uuid : {[k \in 1..16 |-> IF k = 16 THEN u ELSE 0] : u \in UUIDs},
         username : {<<>>, Alex},
         properties : {<<>>, <<plain>>, <<signed>>, <<signed, plain>>},
         strict_error_handling : BOOLEAN]
\* serverbound bodies as a peer can build them: a declared string length
\* around each cap, with the payload present or cut off after the prefix
HandshakeInputs ==
    {VarInt_write(PROTOCOL_VERSION) \o VarInt_write(n) \o [k \in 1..m |-> 97]
         \o <<99, 221>> \o <<next>> :
         n \in {0, 9, 255, 256, 300, McString_MAX_LENGTH, McString_MAX_LENGTH + 1},
         m \in {0, 9, 255, 256, 300},
         next \in {1, 2}}
LoginStartInputs ==
    {VarInt_write(n) \o [k \in 1..m |-> 97] \o [k \in 1..z |-> k] :
         n \in {0, 3, 16, 17, 40, McString_MAX_LENGTH + 1}, m \in {0, 3, 16, 17, 40},
         z \in {0, 16}}

\* packet data a peer can put behind a length prefix: a data_length (the
\* packet id when compression is off) followed by literal bytes, by a finished
\* deflate stream, or by a deflate stream cut short
FrameDatas ==
    LET Literals == {<<>>, <<3>>, <<3, 7>>, <<128, 1, 7>>, <<3, 7, 9, 9>>, [k \in 1..130 |-> 7]}
        Streams == {Deflate(u) : u \in Literals \ {<<>>}}
        Cut == UNION {{SubSeq(z, 1, n) : n \in {1, Len(z) - 2, Len(z) - 1}} : z \in Streams}
    IN  {VarInt_write(data_length) \o rest :
             data_length \in {0, 1, 2, 3, 4, 5, 130}, rest \in Literals \cup Streams \cup Cut}

Call(op, arg, out) == [op |-> op, arg |-> arg, out |-> out]

\* ------------------------------------------------------ codecs: actions
CodecInit == Init /\ config.compression_threshold = None

VarIntWrite(v) ==
    /\ call = CallIdle
    /\ call' = Call("VarInt_write", v, VarInt_write(v))
    /\ UNCHANGED <<locks, server_vars, wire_vars, dir_pc>>

VarIntRead(bytes) ==
    /\ call = CallIdle
    /\ call' = Call("VarInt_read", bytes, VarInt_read(bytes))
    /\ UNCHANGED <<locks, server_vars, wire_vars, dir_pc>>

VarLongRead(bytes) ==
    /\ call = CallIdle
    /\ call' = Call("VarLong_read", bytes, VarLong_read(bytes))
    /\ UNCHANGED <<locks, server_vars, wire_vars, dir_pc>>

ReadBool(bytes) ==
    /\ call = CallIdle
    /\ call' = Call("read_bool", bytes, read_bool(bytes))
    /\ UNCHANGED <<locks, server_vars, wire_vars, dir_pc>>

WriteBool(value) ==
    /\ call = CallIdle
    /\ call' = Call("write_bool", value, write_bool(value))
    /\ UNCHANGED <<locks, server_vars, wire_vars, dir_pc>>

PositionWrite(p) ==
    /\ call = CallIdle
    /\ call' = Call("Position_write", p, Position_write(p))
    /\ UNCHANGED <<locks, server_vars, wire_vars, dir_pc>>

PositionRead(bytes) ==
    /\ call = CallIdle
    /\ call' = Call("Position_read", bytes, Position_read(bytes))
    /\ UNCHANGED <<locks, server_vars, wire_vars, dir_pc>>

IdentifierParts(s) ==
    /\ call = CallIdle
    /\ call' = Call("Identifier", s,
                    [namespace |-> Identifier_namespace(s), path |-> Identifier_path(s)])
    /\ UNCHANGED <<locks, server_vars, wire_vars, dir_pc>>

LoginSuccessWrite(packet) ==
    /\ call = CallIdle
    /\ call' = Call("LoginSuccessPacket_write", packet, LoginSuccessPacket_write(packet))
    /\ UNCHANGED <<locks, server_vars, wire_vars, dir_pc>>

HandshakeRead(bytes) ==
    /\ call = CallIdle
    /\ call' = Call("HandshakePacket_read", bytes, HandshakePacket_read(bytes))
    /\ UNCHANGED <<locks, server_vars, wire_vars, dir_pc>>

LoginStartRead(bytes) ==
    /\ call = CallIdle
    /\ call' = Call("LoginStartPacket_read", bytes, LoginStartPacket_read(bytes))
    /\ UNCHANGED <<locks, server_vars, wire_vars, dir_pc>>

DecompressPacket(threshold, data) ==
    /\ call = CallIdle
    /\ call' = Call("decompress_packet", [threshold |-> threshold, data |-> data],
                    Compression_decompress_packet(threshold, data))
    /\ UNCHANGED <<locks, server_vars, wire_vars, dir_pc>>

\* read_packet on a stream that holds one frame, whole or without its last
\* `cut` bytes, and then ends
ReadTruncated(compression, data, cut) ==
    /\ call = CallIdle
    /\ LET frame == VarInt_write(Len(data)) \o data
           stream == SubSeq(frame, 1, Len(frame) - cut)
       IN  call' = Call("read_packet",
                        [compression |-> compression, frame |-> frame, stream |-> stream],
                        Connection_read_packet(compression, stream))
    /\ UNCHANGED <<locks, server_vars, wire_vars, dir_pc>>

\* the caller takes the result; the next call starts from a fresh cursor
Return ==
    /\ call # CallIdle
    /\ call' = CallIdle
    /\ UNCHANGED <<locks, server_vars, wire_vars, dir_pc>>

\* -------------------------------------------------------- codecs: claims
\* the number of leading bytes that carry the continuation bit
LeadingCont(bytes) ==
    Cardinality({k \in 1..Len(bytes) : \A j \in 1..k : bytes[j] >= 128})

\* C23: VarInt::write emits the minimal number of 7-bit groups, one to five
\* bytes, with the documented encodings of 0, 127, 128, 255, 25565, -1 and
\* 2147483647; VarInt::read gives the written value back and consumes
\* exactly VarInt::len bytes, also when more bytes follow.
C23_VarIntRoundTrip ==
    call.op = "VarInt_write" =>
        LET v == call.arg
            b == call.out
            n == Len(b)
        IN  /\ n \in 1..5
            /\ n = VarInt_len(v)
            /\ \A k \in 1..n : b[k] \in 0..255 /\ (b[k] >= 128 <=> k < n)
            /\ n > 1 => b[n] # 0
            /\ v = 0 => b = <<0>>
            /\ v = 127 => b = <<127>>
            /\ v = 128 => b = <<128, 1>>
            /\ v = 255 => b = <<255, 1>>
            /\ v = 25565 => b = <<221, 199, 1>>
            /\ v = -1 => b = <<255, 255, 255, 255, 15>>
            /\ v = 2147483647 => b = <<255, 255, 255, 255, 7>>
            /\ VarInt_read(b) = [res |-> "Ok", value |-> v, used |-> n]
            /\ VarInt_read(b \o <<128, 1>>) = [res |-> "Ok", value |-> v, used |-> n]
C23_Witness ==
    /\ call.op = "VarInt_write"
    /\ call.arg = -1
    /\ Len(call.out) = 5

\* C24: VarInt::read / Connection::read_varint fail with a Protocol error
\* once a fifth byte with the continuation bit has been read, VarLong::read
\* once a tenth; no sixth (eleventh) byte is read, and a sequence that ends
\* within five (ten) bytes is accepted.
C24_VarIntBounded ==
    /\ call.op = "VarInt_read" =>
           LET n == LeadingCont(call.arg)
           IN  /\ call.out.used <= 5
               /\ n >= 5 => call.out.res = "Protocol" /\ call.out.used = 5
               /\ n < 5 /\ n < Len(call.arg) =>
                      call.out.res = "Ok" /\ call.out.used = n + 1
               /\ n < 5 /\ n = Len(call.arg) => call.out.res = "Io"
    /\ call.op = "VarLong_read" =>
           LET n == LeadingCont(call.arg)
           IN  /\ call.out.used <= 10
               /\ n >= 10 => call.out.res = "Protocol" /\ call.out.used = 10
               /\ n < 10 /\ n < Len(call.arg) =>
                      call.out.res = "Ok" /\ call.out.used = n + 1
               /\ n < 10 /\ n = Len(call.arg) => call.out.res = "Io"
C24_Witness ==
    /\ call.op = "VarInt_read"
    /\ Len(call.arg) >= 6
    /\ LeadingCont(call.arg) >= 5
    /\ call.out.res = "Protocol"

\* C25: whenever the VarInt or the boolean decoder accepts a byte string b as
\* the value p, the encoder's output for p is a prefix of b.
C25_Canonical ==
    /\ call.op = "VarInt_read" /\ call.out.res = "Ok" =>
           IsPrefix(VarInt_write(call.out.value), call.arg)
    /\ call.op = "read_bool" /\ call.out.res = "Ok" =>
           IsPrefix(write_bool(call.out.value), call.arg)

\* C26 (as stated): Position::write of (18357644, 831, -20882616) emits the
\* big-endian bytes of 0x4C8000006B00F27E, and Position::read recovers the
\* triple.
C26_PositionLiteral ==
    call.op = "Position_write" /\ call.arg = [x |-> 18357644, y |-> 831, z |-> -20882616] =>
        /\ call.out = <<76, 128, 0, 0, 107, 0, 242, 126>>
        /\ Position_read(call.out).value = call.arg

\* C26 (amended): Position::write emits the big-endian i64
\* (X & 0x3FFFFFF) << 38 | (Z & 0x3FFFFFF) << 12 | (Y & 0xFFF), which for
\* (18357644, 831, -20882616) is 0x4607632C15B4833F; Position::read recovers
\* every triple whose x and z fit 26 signed bits and whose y fits 12.
C26_PositionPacking ==
    call.op = "Position_write" =>
        LET p == call.arg
            b == call.out
        IN  /\ Len(b) = 8 /\ \A k \in 1..8 : b[k] \in 0..255
            /\ Bits(b, 38, 26) = p.x % 67108864
            /\ Bits(b, 12, 26) = p.z % 67108864
            /\ Bits(b, 0, 12) = p.y % 4096
            /\ p = [x |-> 18357644, y |-> 831, z |-> -20882616] =>
                   b = <<70, 7, 99, 44, 21, 180, 131, 63>>
            /\ (p.x \in -33554432..33554431 /\ p.z \in -33554432..33554431
                /\ p.y \in -2048..2047) =>
                   Position_read(b) = [res |-> "Ok", value |-> p, used |-> 8]
C26_Witness ==
    /\ call.op = "Position_write"
    /\ call.arg = [x |-> 18357644, y |-> 831, z |-> -20882616]
    /\ Position_read(call.out).value = call.arg

\* C27: an Identifier without ':' has namespace() "minecraft" and path() the
\* whole string; "ns:path" has namespace() "ns" and path() "path".
C27_IdentifierParts ==
    call.op = "Identifier" =>
        LET s == call.arg
            colons == {k \in 1..Len(s) : s[k] = ":"}
        IN  /\ colons = {} =>
                /\ call.out.namespace = <<"m", "i", "n", "e", "c", "r", "a", "f", "t">>
                /\ call.out.path = s
            /\ Cardinality(colons) = 1 =>
                \A k \in colons :
                    /\ call.out.namespace = SubSeq(s, 1, k - 1)
                    /\ call.out.path = SubSeq(s, k + 1, Len(s))

\* C21: LoginSuccessPacket::read of what LoginSuccessPacket::write emitted
\* succeeds and returns the same uuid, username and properties; the
\* strict_error_handling boolean is not on the wire.
C21_LoginSuccessRoundTrip ==
    call.op = "LoginSuccessPacket_write" =>
        LET back == LoginSuccessPacket_read(call.out)
        IN  /\ back.res = "Ok"
            /\ back.value.uuid = call.arg.uuid
            /\ back.value.username = call.arg.username
            /\ back.value.properties = call.arg.properties

\* C22: HandshakePacket::read fails with a Protocol error when the declared
\* server_address length exceeds 255, LoginStartPacket::read when the
\* declared name length exceeds 16, in both cases before any byte of the
\* string payload is read.
C22_StringCaps ==
    /\ call.op = "HandshakePacket_read" =>
           LET protocol_version == VarInt_read(call.arg)
               length == VarInt_read(Rest(call.arg, protocol_version.used))
           IN  protocol_version.res = "Ok" /\ length.res = "Ok" /\ length.value > 255 =>
                   /\ call.out.res = "Protocol"
                   /\ call.out.used = protocol_version.used + length.used
    /\ call.op = "LoginStartPacket_read" =>
           LET length == VarInt_read(call.arg)
           IN  length.res = "Ok" /\ length.value > 16 =>
                   /\ call.out.res = "Protocol"
                   /\ call.out.used = length.used

\* C29: for every valid inbound frame, uncompressed or compressed,
\* read_packet on the frame without its last byte, followed by the end of the
\* stream, returns an error and never a decoded packet.
C29_TruncatedFrame ==
    call.op = "read_packet" =>
        LET whole == Connection_read_packet(call.arg.compression, call.arg.frame)
        IN  (/\ whole.res = "Ok"
             /\ whole.rest = <<>>
             /\ Len(call.arg.stream) = Len(call.arg.frame) - 1) =>
                call.out.res # "Ok"
C29_Witness ==
    /\ call.op = "read_packet"
    /\ call.arg.compression = Some(4)
    /\ call.arg.frame = <<6, 4>> \o Deflate(<<3, 7, 9, 9>>)
    /\ Connection_read_packet(call.arg.compression, call.arg.frame).res = "Ok"
    /\ Len(call.arg.stream) = Len(call.arg.frame) - 1
    /\ call.out.res = "Io"

\* C30: when the declared uncompressed_length is not 0, decompress_packet
\* accepts only if inflating yields exactly uncompressed_length bytes; a
\* stream that inflates to fewer or to more bytes is rejected with a Protocol
\* error.
C30_ExactInflatedLength ==
    call.op = "decompress_packet" =>
        LET data_length == VarInt_read(call.arg.data)
            compressed_data == Rest(call.arg.data, data_length.used)
            n == Len(compressed_data) - 1
            finished == /\ n >= 0
                        /\ compressed_data[n + 1] = 512
                        /\ \A k \in 1..n : compressed_data[k] \in 256..511
        IN  (/\ data_length.res = "Ok"
             /\ data_length.value # 0
             /\ finished) =>
                /\ call.out.res = "Ok" => n = data_length.value
                /\ n # data_length.value => call.out.res = "Protocol"

\* ===================================================================== listener
\* ServerListener::listen as its own process.  Here the variable `call` holds
\* the listener: where it is (accepting, or returned from listen), whether the
\* receiving half of the channel still exists, and the kinds of error logged
\* so far.  An iteration has one await, accept(); the send on the unbounded
\* channel is synchronous, so an iteration is one step.

\* listen returning at the first error instead of logging it
listen_returns(accepted, sent_ok) ==
    IF accepted /\ sent_ok THEN "accepting" ELSE "returned"

\* ServerListener::listen: where the loop is after one iteration.  Both match
\* arms and the failed send fall through to the next iteration.
listen(accepted, sent_ok) == "accepting"

\* UnboundedSender::send as listen uses it: it fails iff the receiver is gone,
\* however many connections are queued, and never waits
send(chan, receiver, c) ==
    IF receiver = "open" THEN [ok |-> TRUE, chan |-> Append(chan, c)]
    ELSE [ok |-> FALSE, chan |-> chan]

ListenerInit ==
    /\ config = [compression_threshold |-> None, max_players |-> [hi |-> 0, lo |-> 20],
                 view_distance |-> 12, simulation_distance |-> 12]
    /\ channel = <<>>
    /\ task = [c \in Conns |-> "unborn"]
    /\ connection = [c \in Conns |-> NewConnection]
    /\ sent = [c \in Conns |-> <<>>]
    /\ status = [c \in Conns |-> [online |-> 0, protocol |-> PROTOCOL_VERSION]]
    /\ players = [u \in UUIDs |-> None]
    /\ connections = [c \in Conns |-> None]
    /\ status_online = 0
    /\ prev_online = 0
    /\ script = [c \in Conns |-> [step |-> 0, ls |-> None]]
    /\ idle = [c \in Conns |-> 0]
    /\ WireIdle
    /\ dir_pc = [c \in Conns |-> DirIdle]
    /\ call = [listener |-> "accepting", receiver |-> "open", log |-> {}]
    /\ locks = LocksIdle

\* ServerListener::listen: one iteration of the loop.  accept() returns an
\* error, or the socket of a new peer c, which is wrapped in a Connection and
\* sent; a Connection whose send fails is dropped, which closes its socket.
Listen(c, accepted) ==
    /\ call.listener = "accepting"
    /\ accepted => task[c] = "unborn"
    /\ LET s == send(channel, call.receiver, c)
       IN  /\ channel' = IF accepted THEN s.chan ELSE channel
           /\ task' = IF accepted
                      THEN [task EXCEPT ![c] = IF s.ok THEN "queued" ELSE "dropped"]
                      ELSE task
           /\ call' = [call EXCEPT
                         !.listener = listen(accepted, accepted /\ s.ok),
                         !.log = IF ~accepted THEN @ \cup {"accept"}
                                 ELSE IF ~s.ok THEN @ \cup {"send"} ELSE @]
    /\ UNCHANGED <<locks, config, connection, sent, status, players, connections,
                   status_online, prev_online, script, idle, wire_vars, dir_pc>>

\* MinecraftServer::run ends or is dropped: the receiver goes away and with it
\* the connections still queued
DropReceiver ==
    /\ call.receiver = "open"
    /\ call' = [call EXCEPT !.receiver = "closed"]
    /\ channel' = <<>>
    /\ task' = [c \in Conns |-> IF task[c] = "queued" THEN "dropped" ELSE task[c]]
    /\ UNCHANGED <<locks, config, connection, sent, status, players, connections,
                   status_online, prev_online, script, idle, wire_vars, dir_pc>>

ListenerNext ==
    \/ \E c \in Conns, accepted \in BOOLEAN : Listen(c, accepted)
    \/ DropReceiver
    \/ call.receiver = "open" /\ Spawn
    \/ \E c \in Conns, pkt \in Packets : HandleHandshaking(c, pkt)
    \/ \E c \in Conns : ReadError(c)

ListenerSpec == ListenerInit /\ [][ListenerNext]_vars

\* C39: listen never returns; an iteration whose accept() failed can always
\* be taken and a new peer can always be accepted, whatever the length of the
\* channel and whether or not the receiver exists; every iteration logs its
\* error, queues the connection exactly when the receiver exists, and leaves
\* the listener accepting.
C39_ListenerKeepsAccepting ==
    /\ [](call.listener = "accepting")
    /\ [](\A c \in Conns :
            /\ ENABLED Listen(c, FALSE)
            /\ task[c] = "unborn" => ENABLED Listen(c, TRUE))
    /\ [][\A c \in Conns, accepted \in BOOLEAN :
            Listen(c, accepted)
            => /\ call'.listener = "accepting"
               /\ ~accepted => "accept" \in call'.log /\ channel' = channel
               /\ (accepted /\ call.receiver = "open")
                    => channel' = Append(channel, c) /\ call'.log = call.log
               /\ (accepted /\ call.receiver = "closed")
                    => "send" \in call'.log /\ channel' = channel]_vars
C39_Witness ==
    /\ call.listener = "accepting"
    /\ call.log = {"accept", "send"}
    /\ \E c, d \in Conns : task[c] = "running" /\ task[d] = "dropped"

\* ---------------------------------------------------------------- C33
\* C33: Connection::set_state and Connection::enable_compression keep the
\* codec in step with the ProtocolState: if before the call a codec is
\* installed iff compression_enabled, with the codec's threshold equal to
\* compression_threshold, then the same holds after the call.
C33_CodecMatchesState ==
    [][LET InStep(conn) ==
               /\ (conn.compression # None) <=> conn.compression_enabled
               /\ conn.compression_enabled
                    => conn.compression = conn.compression_threshold
       IN  \A c \in Conns :
               (/\ InStep(connection[c])
                /\ \/ \E s \in ConnectionState : TransitionTo(c, s)
                   \/ \E t \in StateThresholds : EnableCompression(c, t))
               => InStep(connection'[c])]_vars

\* ======================================================================== locks
\* The three tokio RwLocks (world, players, connections) and the tasks that
\* take them: each connection task, calling add_player and remove_player, and
\* the server loop, whose tick takes the world and counts the players.  A
\* tokio RwLock queues its waiters and serves them first in, first out; a
\* writer needs the lock free, a reader needs no writer holding it.  Here
\* dir_pc[t] is the call task t is in, the lock scope it has reached, whether
\* it waits for or holds that scope's lock, and the uuid remove_player carries.
LockTasks == Conns \cup {"tick"}

\* every guard kept alive while the next lock is awaited
lock_plan_nested(op) ==
    CASE op = "add_player" ->
           <<[lock |-> "players", mode |-> "write", nested |-> TRUE],
             [lock |-> "connections", mode |-> "write", nested |-> TRUE]>>
      [] op = "remove_player" ->
           <<[lock |-> "connections", mode |-> "write", nested |-> TRUE],
             [lock |-> "players", mode |-> "write", nested |-> TRUE]>>
      [] OTHER ->
           <<[lock |-> "world", mode |-> "write", nested |-> TRUE],
             [lock |-> "players", mode |-> "read", nested |-> TRUE]>>

\* The lock scopes of a call, in program order: which lock, how it is taken,
\* and whether its guard is still alive when the next lock is awaited.
\* add_player and remove_player close each scope before the next; the tick
\* keeps the world guard while player_count reads the players.
lock_plan(op) ==
    CASE op = "add_player" ->
           <<[lock |-> "players", mode |-> "write", nested |-> FALSE],
             [lock |-> "connections", mode |-> "write", nested |-> FALSE]>>
      [] op = "remove_player" ->
           <<[lock |-> "connections", mode |-> "write", nested |-> FALSE],
             [lock |-> "players", mode |-> "write", nested |-> FALSE]>>
      [] OTHER ->
           <<[lock |-> "world", mode |-> "write", nested |-> TRUE],
             [lock |-> "players", mode |-> "read", nested |-> FALSE]>>

LockIdle == [op |-> "idle", step |-> 0, phase |-> "idle", uuid |-> None]

LockInit ==
    /\ config = [compression_threshold |-> None, max_players |-> [hi |-> 0, lo |-> 20],
                 view_distance |-> 12, simulation_distance |-> 12]
    /\ channel = <<>>
    /\ task = [c \in Conns |-> "running"]
    /\ connection = [c \in Conns |-> NewConnection]
    /\ sent = [c \in Conns |-> <<>>]
    /\ status = [c \in Conns |-> [online |-> 0, protocol |-> PROTOCOL_VERSION]]
    /\ players = [u \in UUIDs |-> None]
    /\ connections = [c \in Conns |-> None]
    /\ status_online = 0
    /\ prev_online = 0
    /\ script = [c \in Conns |-> [step |-> 0, ls |-> None]]
    /\ idle = [c \in Conns |-> 0]
    /\ WireIdle
    /\ dir_pc = [t \in LockTasks |-> LockIdle]
    /\ call = CallIdle
    /\ locks = LocksIdle

\* a task enters add_player, remove_player or the tick and awaits the lock of
\* the first scope: it joins that lock's queue
Begin(t, op) ==
    /\ dir_pc[t].op = "idle"
    /\ op \in (IF t = "tick" THEN {"tick"} ELSE {"add_player", "remove_player"})
    /\ locks' = [locks EXCEPT ![lock_plan(op)[1].lock].queue = Append(@, t)]
    /\ dir_pc' = [dir_pc EXCEPT ![t] = [op |-> op, step |-> 1, phase |-> "waiting",
                                        uuid |-> None]]
    /\ UNCHANGED <<config, channel, task, connection, sent, status, players,
                   connections, status_online, prev_online, script, idle, wire_vars,
                   call>>

\* RwLock::write().await / read().await returns: the task is first in the
\* queue and the lock is free for its mode
Acquire(t) ==
    /\ dir_pc[t].phase = "waiting"
    /\ LET s == lock_plan(dir_pc[t].op)[dir_pc[t].step]
           L == locks[s.lock]
       IN  /\ L.queue # <<>>
           /\ Head(L.queue) = t
           /\ IF s.mode = "write" THEN L.held = {}
              ELSE \A h \in L.held : h.mode = "read"
           /\ locks' = [locks EXCEPT ![s.lock] =
                           [held |-> L.held \cup {[who |-> t, mode |-> s.mode]},
                            queue |-> Tail(L.queue)]]
    /\ dir_pc' = [dir_pc EXCEPT ![t].phase = "holding"]
    /\ UNCHANGED <<config, channel, task, connection, sent, status, players,
                   connections, status_online, prev_online, script, idle, wire_vars,
                   call>>

\* the body of the scope the task holds the lock of, up to the next await:
\* the map operation, the guards that go out of scope, and the request for
\* the lock of the next scope.  remove_player returns after its first scope
\* when the address had no entry; returning drops every guard.
Run(t) ==
    /\ dir_pc[t].phase = "holding"
    /\ LET pc   == dir_pc[t]
           plan == lock_plan(pc.op)
           s    == plan[pc.step]
           uuid == IF pc.op = "remove_player" /\ pc.step = 1 THEN connections[t]
                   ELSE pc.uuid
           last == \/ pc.step = Len(plan)
                   \/ pc.op = "remove_player" /\ pc.step = 1 /\ uuid = None
           dropped(l) == last \/ (l = s.lock /\ ~s.nested)
       IN  /\ players' =
                 IF pc.op = "add_player" /\ pc.step = 1
                 THEN [players EXCEPT ![PlayerAt[t].uuid] = Some(PlayerAt[t])]
                 ELSE IF pc.op = "remove_player" /\ pc.step = 2
                 THEN [players EXCEPT ![uuid[1]] = None]
                 ELSE players
           /\ connections' =
                 IF pc.op = "add_player" /\ pc.step = 2
                 THEN [connections EXCEPT ![t] = Some(PlayerAt[t].uuid)]
                 ELSE IF pc.op = "remove_player" /\ pc.step = 1
                 THEN [connections EXCEPT ![t] = None]
                 ELSE connections
           /\ status_online' = IF pc.op = "tick" /\ pc.step = 2
                               THEN player_count(players) ELSE status_online
           /\ locks' = [l \in DOMAIN locks |->
                          [held  |-> IF dropped(l)
                                     THEN {h \in locks[l].held : h.who # t}
                                     ELSE locks[l].held,
                           queue |-> IF ~last /\ l = plan[pc.step + 1].lock
                                     THEN Append(locks[l].queue, t)
                                     ELSE locks[l].queue]]
           /\ dir_pc' = [dir_pc EXCEPT ![t] =
                           IF last THEN LockIdle
                           ELSE [op |-> pc.op, step |-> pc.step + 1,
                                 phase |-> "waiting", uuid |-> uuid]]
    /\ UNCHANGED <<config, channel, task, connection, sent, status, prev_online,
                   script, idle, wire_vars, call>>

LockNext ==
    \/ \E t \in LockTasks, op \in {"add_player", "remove_player", "tick"} : Begin(t, op)
    \/ \E t \in LockTasks : Acquire(t)
    \/ \E t \in LockTasks : Run(t)

LockSpec == LockInit /\ [][LockNext]_vars

\* the runtime polls every task that can proceed
LockFairSpec ==
    LockSpec /\ \A t \in LockTasks : WF_vars(Acquire(t)) /\ WF_vars(Run(t))

Holds(t, l) == \E h \in locks[l].held : h.who = t
Waits(t, l) == \E i \in 1..Len(locks[l].queue) : locks[l].queue[i] = t

\* C37: no task waits for one of the directory locks (players, connections)
\* while holding the other; whenever some task waits for or holds a lock,
\* some task can take a step; and every task that waits for a lock comes to
\* hold it.
C37_LocksGranted ==
    /\ [](\A t \in LockTasks :
            /\ ~(Holds(t, "players") /\ Waits(t, "connections"))
            /\ ~(Holds(t, "connections") /\ Waits(t, "players")))
    /\ []((\E t \in LockTasks : dir_pc[t].op # "idle")
            => \E t \in LockTasks : ENABLED Acquire(t) \/ ENABLED Run(t))
    /\ \A t \in LockTasks, l \in {"world", "players", "connections"} :
            Waits(t, l) ~> Holds(t, l)
\* the tick holds the world and waits for the players behind a connection
\* task's write, while the other connection task holds the connections
C37_Witness ==
    \E c, d \in Conns :
        /\ c # d
        /\ Holds("tick", "world")
        /\ locks["players"].queue = <<c, "tick">>
        /\ Holds(d, "connections")
        /\ dir_pc[d].op = "remove_player"

\* ================================================= packets with optional fields
\* LoginPlayPacket and RegistryDataPacket at byte level.  An i32 is an integer,
\* an i64 its 8 big-endian bytes, a String its UTF-8 bytes, a Vec a sequence.

\* the loop over dimension_names in LoginPlayPacket::read
RECURSIVE read_dimension_names(_, _)
read_dimension_names(bytes, count) ==
    IF count <= 0 THEN [res |-> "Ok", value |-> <<>>, used |-> 0]
    ELSE LET push(names) ==
                 IF names.res # "Ok" THEN names
                 ELSE CHOOSE pushed \in
                          {[res |-> name.res,
                            value |-> IF name.res = "Ok"
                                      THEN Append(names.value, name.value) ELSE <<>>,
                            used |-> names.used + name.used] :
                             name \in {McString_read(Rest(bytes, names.used))}} : TRUE
         IN  CHOOSE names \in {push(before) :
                                 before \in {read_dimension_names(bytes, count - 1)}} :
                 TRUE

\* LoginPlayPacket::write
LoginPlayPacket_write(p) ==
    LET RECURSIVE names(_)
        names(s) == IF s = <<>> THEN <<>> ELSE McString_write(Head(s)) \o names(Tail(s))
        w == IF p.entity_id >= 0 THEN p.entity_id ELSE p.entity_id + 2147483647 + 1
        to_be_bytes == <<(w \div 16777216) + (IF p.entity_id < 0 THEN 128 ELSE 0),
                         (w \div 65536) % 256, (w \div 256) % 256, w % 256>>
    IN  to_be_bytes
        \o write_bool(p.is_hardcore)
        \o VarInt_write(Len(p.dimension_names)) \o names(p.dimension_names)
        \o VarInt_write(p.max_players)
        \o VarInt_write(p.view_distance)
        \o VarInt_write(p.simulation_distance)
        \o write_bool(p.reduced_debug_info)
        \o write_bool(p.enable_respawn_screen)
        \o write_bool(p.do_limited_crafting)
        \o VarInt_write(p.dimension_type)
        \o McString_write(p.dimension_name)
        \o p.hashed_seed
        \o <<p.game_mode>>
        \o <<p.previous_game_mode % 256>>
        \o write_bool(p.is_debug)
        \o write_bool(p.is_flat)
        \o write_bool(p.has_death_location)
        \o (IF /\ p.has_death_location
               /\ p.death_dimension_name # None
               /\ p.death_location # None
            THEN McString_write(p.death_dimension_name[1])
                 \o Position_write(p.death_location[1])
            ELSE <<>>)
        \o VarInt_write(p.portal_cooldown)
        \o VarInt_write(p.sea_level)
        \o write_bool(p.enforces_secure_chat)

\* one field of LoginPlayPacket::read, by the type it is read as; the death
\* location is the flag and, when the flag is set, the dimension and position
LoginPlay_read_field(kind, bytes) ==
    LET exact(n, value) ==
            IF Len(bytes) < n THEN [res |-> "Io", value |-> 0, used |-> Len(bytes)]
            ELSE [res |-> "Ok", value |-> value, used |-> n]
    IN  CASE kind = "bool" -> read_bool(bytes)
          [] kind = "VarInt" -> VarInt_read(bytes)
          [] kind = "McString" -> McString_read(bytes)
          [] kind = "i32" ->
               exact(4, LET u == (bytes[1] % 128) * 16777216 + bytes[2] * 65536
                                   + bytes[3] * 256 + bytes[4]
                        IN  IF bytes[1] >= 128 THEN u - 2147483647 - 1 ELSE u)
          [] kind = "i64" -> exact(8, SubSeq(bytes, 1, 8))
          [] kind = "u8" -> exact(1, bytes[1])
          [] kind = "i8" -> exact(1, IF bytes[1] >= 128 THEN bytes[1] - 256 ELSE bytes[1])
          [] kind = "Vec<McString>" ->
               LET dimension_count == VarInt_read(bytes)
               IN  IF dimension_count.res # "Ok" THEN dimension_count
                   ELSE CHOOSE read \in
                            {[res |-> names.res, value |-> names.value,
                              used |-> dimension_count.used + names.used] :
                               names \in {read_dimension_names(
                                              Rest(bytes, dimension_count.used),
                                              dimension_count.value)}} : TRUE
          [] OTHER ->
               LET has_death_location == read_bool(bytes)
                   location(dimension) ==
                       IF dimension.res # "Ok"
                       THEN [res |-> dimension.res, value |-> 0,
                             used |-> 1 + dimension.used]
                       ELSE CHOOSE read \in
                                {[res |-> position.res,
                                  value |-> <<TRUE, Some(dimension.value),
                                              Some(position.value)>>,
                                  used |-> 1 + dimension.used + position.used] :
                                   position \in {Position_read(
                                                    Rest(bytes, 1 + dimension.used))}} :
                                TRUE
               IN  IF has_death_location.res # "Ok" THEN has_death_location
                   ELSE IF ~has_death_location.value
                   THEN [res |-> "Ok", value |-> <<FALSE, None, None>>, used |-> 1]
                   ELSE CHOOSE read \in {location(dimension) :
                                           dimension \in {McString_read(Rest(bytes, 1))}} :
                            TRUE

\* the first n reads of LoginPlayPacket::read: each field is read from where
\* the one before stopped, and the first one that fails ends the read (`?`)
RECURSIVE LoginPlay_read_fields(_, _, _)
LoginPlay_read_fields(kinds, bytes, n) ==
    IF n = 0 THEN [res |-> "Ok", value |-> <<>>, used |-> 0]
    ELSE LET next(before) ==
                 IF before.res # "Ok" THEN before
                 ELSE CHOOSE read \in
                          {[res |-> field.res,
                            value |-> Append(before.value, field.value),
                            used |-> before.used + field.used] :
                             field \in {LoginPlay_read_field(
                                           kinds[n], Rest(bytes, before.used))}} : TRUE
         IN  CHOOSE after \in {next(before) :
                                 before \in {LoginPlay_read_fields(kinds, bytes, n - 1)}} :
                 TRUE

\* LoginPlayPacket::read
LoginPlayPacket_read(bytes) ==
    LET kinds == <<"i32", "bool", "Vec<McString>", "VarInt", "VarInt", "VarInt",
                   "bool", "bool", "bool", "VarInt", "McString", "i64", "u8", "i8",
                   "bool", "bool", "death location", "VarInt", "VarInt", "bool">>
        packet(read) ==
            IF read.res # "Ok" THEN [res |-> read.res, value |-> None, used |-> read.used]
            ELSE [res |-> "Ok",
                  value |-> [entity_id |-> read.value[1],
                             is_hardcore |-> read.value[2],
                             dimension_names |-> read.value[3],
                             max_players |-> read.value[4],
                             view_distance |-> read.value[5],
                             simulation_distance |-> read.value[6],
                             reduced_debug_info |-> read.value[7],
                             enable_respawn_screen |-> read.value[8],
                             do_limited_crafting |-> read.value[9],
                             dimension_type |-> read.value[10],
                             dimension_name |-> read.value[11],
                             hashed_seed |-> read.value[12],
                             game_mode |-> read.value[13],
                             previous_game_mode |-> read.value[14],
                             is_debug |-> read.value[15],
                             is_flat |-> read.value[16],
                             has_death_location |-> read.value[17][1],
                             death_dimension_name |-> read.value[17][2],
                             death_location |-> read.value[17][3],
                             portal_cooldown |-> read.value[18],
                             sea_level |-> read.value[19],
                             enforces_secure_chat |-> read.value[20]],
                  used |-> read.used]
    IN  CHOOSE out \in {packet(read) :
                          read \in {LoginPlay_read_fields(kinds, bytes, Len(kinds))}} : TRUE

\* RegistryDataPacket::write
RegistryDataPacket_write(p) ==
    LET RECURSIVE entries(_)
        entries(s) ==
            IF s = <<>> THEN <<>>
            ELSE LET entry == Head(s)
                 IN  McString_write(entry.entry_id)
                     \o write_bool(entry.has_data)
                     \o (IF entry.data # None
                         THEN VarInt_write(Len(entry.data[1])) \o entry.data[1]
                         ELSE <<>>)
                     \o entries(Tail(s))
    IN  McString_write(p.registry_id) \o VarInt_write(Len(p.entries)) \o entries(p.entries)

\* one iteration of the loop over the entries in RegistryDataPacket::read.
\* A negative data_length as usize asks vec! for more than the address
\* space: panic.
read_entry(bytes) ==
    LET err(res, used) == [res |-> res, value |-> None, used |-> used]
        data(entry_id, o2) ==
            CHOOSE entry \in
                {IF data_length.res # "Ok"
                 THEN err(data_length.res, o2 + data_length.used)
                 ELSE IF data_length.value < 0 THEN err("panic", o2 + data_length.used)
                 ELSE IF Len(bytes) - (o2 + data_length.used) < data_length.value
                 THEN err("Io", Len(bytes))
                 ELSE [res |-> "Ok",
                       value |-> [entry_id |-> entry_id.value, has_data |-> TRUE,
                                  data |-> Some(SubSeq(bytes, o2 + data_length.used + 1,
                                                       o2 + data_length.used
                                                          + data_length.value))],
                       used |-> o2 + data_length.used + data_length.value] :
                   data_length \in {VarInt_read(Rest(bytes, o2))}} : TRUE
        flag(entry_id) ==
            CHOOSE entry \in
                {IF has_data.res # "Ok"
                 THEN err(has_data.res, entry_id.used + has_data.used)
                 ELSE IF ~has_data.value
                 THEN [res |-> "Ok",
                       value |-> [entry_id |-> entry_id.value, has_data |-> FALSE,
                                  data |-> None],
                       used |-> entry_id.used + has_data.used]
                 ELSE data(entry_id, entry_id.used + has_data.used) :
                   has_data \in {read_bool(Rest(bytes, entry_id.used))}} : TRUE
    IN  CHOOSE entry \in
            {IF entry_id.res # "Ok" THEN err(entry_id.res, entry_id.used)
             ELSE flag(entry_id) : entry_id \in {McString_read(bytes)}} : TRUE

\* the loop over the entries in RegistryDataPacket::read
RECURSIVE read_entries(_, _)
read_entries(bytes, count) ==
    IF count <= 0 THEN [res |-> "Ok", value |-> <<>>, used |-> 0]
    ELSE LET join(entry, more) ==
                 [res |-> more.res,
                  value |-> IF more.res = "Ok" THEN <<entry.value>> \o more.value
                            ELSE <<>>,
                  used |-> entry.used + more.used]
             next(entry) ==
                 IF entry.res # "Ok"
                 THEN [res |-> entry.res, value |-> <<>>, used |-> entry.used]
                 ELSE CHOOSE out \in
                          {join(entry, more) :
                             more \in {read_entries(Rest(bytes, entry.used), count - 1)}} :
                          TRUE
         IN  CHOOSE out \in {next(entry) : entry \in {read_entry(bytes)}} : TRUE

\* RegistryDataPacket::read
RegistryDataPacket_read(bytes) ==
    LET packet(registry_id, o2, entries) ==
            IF entries.res # "Ok"
            THEN [res |-> entries.res, value |-> None, used |-> o2 + entries.used]
            ELSE [res |-> "Ok",
                  value |-> [registry_id |-> registry_id.value,
                             entries |-> entries.value],
                  used |-> o2 + entries.used]
        count(registry_id) ==
            CHOOSE read \in
                {IF entry_count.res # "Ok"
                 THEN [res |-> entry_count.res, value |-> None,
                       used |-> registry_id.used + entry_count.used]
                 ELSE CHOOSE read \in
                          {packet(registry_id, registry_id.used + entry_count.used,
                                  entries) :
                             entries \in {read_entries(
                                            Rest(bytes, registry_id.used
                                                           + entry_count.used),
                                            entry_count.value)}} : TRUE :
                   entry_count \in {VarInt_read(Rest(bytes, registry_id.used))}} : TRUE
    IN  CHOOSE read \in
            {IF registry_id.res # "Ok"
             THEN [res |-> registry_id.res, value |-> None, used |-> registry_id.used]
             ELSE count(registry_id) : registry_id \in {McString_read(bytes)}} : TRUE

\* LoginPlayPacket::new with every combination of the death-location fields
LoginPlayPackets ==
    LET overworld == <<109, 105, 110, 101, 99, 114, 97, 102, 116, 58,
                       111, 118, 101, 114, 119, 111, 114, 108, 100>>
        the_nether == <<109, 105, 110, 101, 99, 114, 97, 102, 116, 58,
                        116, 104, 101, 95, 110, 101, 116, 104, 101, 114>>
    IN  [entity_id : {1, -2},
         is_hardcore : {FALSE},
         dimension_names : {<<overworld>>,
                            <<overworld, the_nether, overworld, the_nether>>},
         max_players : {20},
         view_distance : {10},
         simulation_distance : {10},
         reduced_debug_info : {FALSE},
         enable_respawn_screen : {TRUE},
         do_limited_crafting : {FALSE},
         dimension_type : {0},
         dimension_name : {overworld},
         hashed_seed : {<<0, 0, 0, 0, 0, 0, 48, 57>>},
         game_mode : {0},
         previous_game_mode : {-1},
         is_debug : {FALSE},
         is_flat : {FALSE},
         has_death_location : BOOLEAN,
         death_dimension_name : {None, Some(the_nether)},
         death_location : {None, Some([x |-> 100, y |-> 64, z |-> -200])},
         portal_cooldown : {0},
         sea_level : {63},
         enforces_secure_chat : {FALSE}]

\* registries of up to two entries, each with every combination of has_data
\* and data
RegistryDataPackets ==
    LET Entries == [entry_id : {<<97>>}, has_data : BOOLEAN,
                    data : {None, Some(<<>>), Some(<<1, 2>>)}]
    IN  [registry_id : {<<114>>},
         entries : {<<>>} \cup {<<e>> : e \in Entries}
                      \cup {<<e, f>> : e, f \in Entries}]

\* write a packet into a buffer and read the buffer back, as the round-trip
\* tests do
LoginPlayRoundTrip(packet) ==
    /\ call = CallIdle
    /\ \E buffer \in {LoginPlayPacket_write(packet)} :
           call' = Call("LoginPlayPacket", [packet |-> packet, buffer |-> buffer],
                        LoginPlayPacket_read(buffer))
    /\ UNCHANGED <<locks, server_vars, wire_vars, dir_pc>>

RegistryDataRoundTrip(packet) ==
    /\ call = CallIdle
    /\ \E buffer \in {RegistryDataPacket_write(packet)} :
           call' = Call("RegistryDataPacket", [packet |-> packet, buffer |-> buffer],
                        RegistryDataPacket_read(buffer))
    /\ UNCHANGED <<locks, server_vars, wire_vars, dir_pc>>

\* ------------------------------------------------------------ PacketCodec
\* The Packet trait for the packet types used below: P::ID, P::write and
\* P::read.  A unit struct is written as its name.
P_ID(P) ==
    CASE P = "StatusRequestPacket" -> StatusRequestPacket_ID
      [] P = "SetCompressionPacket" -> SetCompressionPacket_ID
      [] OTHER -> LoginPlayPacket_ID
P_write(P, packet) ==
    CASE P = "StatusRequestPacket" -> <<>>
      [] P = "SetCompressionPacket" -> VarInt_write(packet.threshold)
      [] OTHER -> LoginPlayPacket_write(packet)
P_read(P, bytes) ==
    CASE P = "StatusRequestPacket" -> [res |-> "Ok", value |-> "StatusRequestPacket"]
      [] P = "SetCompressionPacket" ->
           LET threshold == VarInt_read(bytes)
           IN  IF threshold.res # "Ok" THEN [res |-> threshold.res, value |-> None]
               ELSE [res |-> "Ok", value |-> [threshold |-> threshold.value]]
      [] OTHER -> CHOOSE read \in {[res |-> packet.res, value |-> packet.value] :
                                     packet \in {LoginPlayPacket_read(bytes)}} : TRUE

\* PacketCodec::encode
PacketCodec_encode(P, packet) ==
    LET packet_data == VarInt_write(P_ID(P)) \o P_write(P, packet)
    IN  VarInt_write(as_i32(Len(packet_data))) \o packet_data

\* PacketCodec::decode
PacketCodec_decode(P, data) ==
    LET packet_id == VarInt_read(data)
    IN  IF packet_id.res # "Ok" THEN [res |-> packet_id.res, value |-> None]
        ELSE IF packet_id.value # P_ID(P) THEN [res |-> "Protocol", value |-> None]
        ELSE CHOOSE out \in {P_read(P, rest) : rest \in {Rest(data, packet_id.used)}} :
                 TRUE

\* calculate_packet_size leaving the length prefix out
calculate_packet_size_no_prefix(P, packet) == VarInt_len(P_ID(P)) + Len(P_write(P, packet))

\* PacketCodec::calculate_packet_size
PacketCodec_calculate_packet_size(P, packet) ==
    LET size == VarInt_len(P_ID(P)) + Len(P_write(P, packet))
    IN  size + VarInt_len(as_i32(size))

\* packets::write_packet_with_length: what it writes to the writer
write_packet_with_length(P, packet) ==
    LET packet_data == VarInt_write(P_ID(P)) \o P_write(P, packet)
    IN  VarInt_write(as_i32(Len(packet_data))) \o packet_data

\* packets of the three types: an empty body, a body of one to four bytes,
\* and bodies on both sides of the two-byte length prefix
CatalogTypes == {"StatusRequestPacket", "SetCompressionPacket", "LoginPlayPacket"}
CatalogPackets(P) ==
    CASE P = "StatusRequestPacket" -> {"StatusRequestPacket"}
      [] P = "SetCompressionPacket" -> {[threshold |-> t] : t \in {0, 3, 64, 256, 2097152}}
      [] OTHER -> {l \in LoginPlayPackets :
                     /\ l.has_death_location = (l.death_location # None)
                     /\ l.has_death_location = (l.death_dimension_name # None)}

\* one of the writers of the frame of a packet is called: PacketCodec::encode,
\* write_packet_with_length, Connection::write_packet on a connection
\* without compression, or PacketCodec::calculate_packet_size
WriteFrame(op, c) ==
    /\ call = CallIdle
    /\ call' = Call(op, c,
                    CASE op = "PacketCodec_encode" -> PacketCodec_encode(c.P, c.packet)
                      [] op = "write_packet_with_length"
                           -> write_packet_with_length(c.P, c.packet)
                      [] op = "Connection_write_packet"
                           -> Connection_write_packet(None, P_ID(c.P),
                                                      P_write(c.P, c.packet), 0).bytes
                      [] OTHER
                           -> [size |-> PacketCodec_calculate_packet_size(c.P, c.packet)])
    /\ UNCHANGED <<locks, server_vars, wire_vars, dir_pc>>

\* PacketCodec::decode::<P> is called on the bytes encode returned for a
\* packet of type P, or on a packet id followed by the body P::write wrote
Decode(c, data) ==
    /\ call = CallIdle
    /\ call' = Call("PacketCodec_decode", [P |-> c.P, packet |-> c.packet, data |-> data],
                    PacketCodec_decode(c.P, data))
    /\ UNCHANGED <<locks, server_vars, wire_vars, dir_pc>>

\* ------------------------------------------ codecs: the specification
CodecNext ==
    \/ \E v \in I32Samples : VarIntWrite(v)
    \/ \E bytes \in ReaderInputs : VarIntRead(bytes)
    \/ \E bytes \in ReaderInputs : VarLongRead(bytes)
    \/ \E bytes \in ReaderInputs : ReadBool(bytes)
    \/ \E value \in BOOLEAN : WriteBool(value)
    \/ \E p \in Positions : PositionWrite(p)
    \/ \E p \in Positions, n \in {7, 8, 9} :
           PositionRead(SubSeq(Position_write(p) \o <<9>>, 1, n))
    \/ \E s \in Identifiers : IdentifierParts(s)
    \/ \E packet \in LoginSuccessPackets : LoginSuccessWrite(packet)
    \/ \E bytes \in HandshakeInputs : HandshakeRead(bytes)
    \/ \E bytes \in LoginStartInputs : LoginStartRead(bytes)
    \/ \E threshold \in {2, 4}, data \in FrameDatas : DecompressPacket(threshold, data)
    \/ \E compression \in WireCodecs, data \in FrameDatas, cut \in {0, 1} :
           ReadTruncated(compression, data, cut)
    \/ \E packet \in LoginPlayPackets : LoginPlayRoundTrip(packet)
    \/ \E packet \in RegistryDataPackets : RegistryDataRoundTrip(packet)
    \/ \E op \in {"PacketCodec_encode", "write_packet_with_length",
                  "Connection_write_packet", "PacketCodec_calculate_packet_size"},
          P \in CatalogTypes :
           \E packet \in CatalogPackets(P) : WriteFrame(op, [P |-> P, packet |-> packet])
    \/ \E P \in CatalogTypes :
           \E packet \in CatalogPackets(P) :
               \E data \in {PacketCodec_encode(P, packet)}
                          \cup {VarInt_write(id) \o P_write(P, packet) :
                                   id \in {P_ID(P), LoginSuccessPacket_ID, 300}} :
                   Decode([P |-> P, packet |-> packet], data)
    \/ Return

CodecSpec == CodecInit /\ [][CodecNext]_vars

\* C32: for LoginPlayPacket and RegistryDataPacket, with any combination of
\* the flag and the Option fields, reading what write wrote succeeds and
\* consumes exactly the written bytes.
C32_OptionalPayloadRoundTrip ==
    call.op \in {"LoginPlayPacket", "RegistryDataPacket"}
    => /\ call.out.res = "Ok"
       /\ call.out.used = Len(call.arg.buffer)

\* C31: decode::<P> of the bytes encode returned for a packet p of type P
\* succeeds and returns p; decode returns a Protocol error exactly when the
\* packet id that leads the data differs from P::ID.
C31_DecodeInvertsEncode ==
    call.op = "PacketCodec_decode" =>
        LET packet_id == VarInt_read(call.arg.data)
        IN  /\ call.arg.data = PacketCodec_encode(call.arg.P, call.arg.packet)
                 => /\ call.out.res = "Ok"
                    /\ call.out.value = call.arg.packet
            /\ call.out.res = "Protocol" <=> packet_id.value # P_ID(call.arg.P)

\* C40: encode, write_packet_with_length and write_packet without compression
\* all emit VarInt(n), VarInt(id), body with n = VarInt::len(id) + len(body),
\* and calculate_packet_size returns the length of that frame.
C40_OneFrameLayout ==
    call.op \in {"PacketCodec_encode", "write_packet_with_length",
                 "Connection_write_packet", "PacketCodec_calculate_packet_size"}
    => LET id == P_ID(call.arg.P)
           body == P_write(call.arg.P, call.arg.packet)
           n == VarInt_len(id) + Len(body)
           frame == VarInt_write(n) \o VarInt_write(id) \o body
       IN  IF call.op = "PacketCodec_calculate_packet_size"
           THEN call.out.size = Len(frame)
           ELSE call.out = frame
\* the size of a frame whose length prefix takes two bytes
C40_Witness ==
    /\ call.op = "PacketCodec_calculate_packet_size"
    /\ call.arg.P = "LoginPlayPacket"
    /\ Len(P_write(call.arg.P, call.arg.packet)) >= 127
    /\ call.out.size = Len(P_write(call.arg.P, call.arg.packet)) + 3


====
